---- MODULE Spec2Model ----
(***************************************************************************)
(* Model of the review orchestration pipeline of azure-ai-code-review:     *)
(* the change selector, the response parser and validator, the per-file   *)
(* review loop with the per-file cap, the comment posting loop, the        *)
(* transport session, the provider registry, the prompt optimizer and the  *)
(* hosted chat provider.                                                   *)
(***************************************************************************)
EXTENDS Integers, Sequences, FiniteSets, TLC

VARIABLES
    \* ---- ResponseParser (src/src/llm/parser.py) ----
    p_pc,            \* "start" | "parsed" | "validated"
    response_text,   \* the model reply handed to parse_review_response
    p_json,          \* what extract_json returned for it
    p_comments,      \* the list handed to validate_comments
    p_valid,         \* outcome of validate_comments
    \* ---- AzureDevOpsClient.filter_reviewable_files ----
    s_pc,            \* "start" | "filtered"
    file_changes, allowed_extensions, exclude_patterns, max_files,
    reviewable,      \* the list built by the loop, before truncation
    s_result,        \* the returned list
    \* ---- CommentClient.post_review_comments ----
    c_pc,            \* "idle" | "posting" | "returned" | "raised"
    c_comments,      \* the batch
    c_i,             \* loop index (1-based, next comment to post)
    c_results,       \* the results dictionary
    c_attempts,      \* create_comment_thread calls made so far, in order
    \* ---- review run (task/scripts/review_pr.py, review_client.py) ----
    pc,              \* position of the run
    file_diffs, file_contents, max_issues, dry_run, post_comments, post_summary,
    idx,             \* review_pull_request loop index
    outcomes,        \* per file: what the provider did ("skipped" when no call)
    all_comments,    \* review_pull_request accumulator
    comments,        \* perform_review result
    handed,          \* batches handed to ado_client.post_review_comments
    results,         \* post_results dictionary
    provider_calls,  \* generate_completion calls issued so far, in order
    summary_gen,     \* how the provider call made for the summary ended
    summary_posts,   \* post_summary_comment calls made so far
    cause,           \* the failure that ended the run with exit code 1
    \* ---- AzureDevOpsAuth and the clients on it (azure_devops/auth.py) ----
    a_pc,            \* "idle" | "live"
    pat_token,       \* config.pat_token is set
    a_session,       \* self._session: 0 for None, else the session object
    a_objects,       \* the requests.Session objects constructed so far
    a_returned,      \* what get_session returned since the last close()
    a_last,          \* the last operation and how it ended
    \* ---- LLMProviderFactory (llm/base.py) ----
    f_pc,            \* "idle" | "live"
    f_providers,     \* cls._providers, in insertion order
    f_log,           \* the register calls made so far
    f_last,          \* the last operation and how it ended
    \* ---- post_results reading the posting result (review_pr.py) ----
    comments_posted, \* results['comments_posted']
    \* ---- get_session called from several threads ----
    t_pc,            \* per thread: position inside get_session
    t_new,           \* per thread: the session object it constructed (0: none)
    t_got,           \* per thread: what get_session returned (0: not yet)
    \* ---- LLMProvider.optimize_prompt (llm/base.py) ----
    q_pc,            \* "idle" | "call" | "optimized" | "again"
    prompt,          \* the prompt (runs)
    max_length,      \* the max_length argument: <<>> for None, else <<n>>
    max_tokens,      \* the provider's configured max_tokens
    estimator,       \* the provider's count_tokens: "chars" | "tiktoken"
    optimized,       \* optimize_prompt(prompt, max_length)
    reoptimized,     \* optimize_prompt(optimized, max_length)
    \* ---- OpenAIProvider (llm/openai_provider.py) ----
    m_pc,            \* "idle" | "config" | "ready" | "raised" | "requested"
    model, timeout, api_key,   \* the LLMConfig
    client_timeout,  \* the timeout the OpenAI client was built with
    params           \* the parameters of the chat completion request

parserVars == <<p_pc, response_text, p_json, p_comments, p_valid>>
selectorVars == <<s_pc, file_changes, allowed_extensions, exclude_patterns,
                  max_files, reviewable, s_result>>
postingVars == <<c_pc, c_comments, c_i, c_results, c_attempts, comments_posted>>
runVars == <<pc, file_diffs, file_contents, max_issues, dry_run, post_comments,
             post_summary, idx, outcomes, all_comments, comments, handed, results,
             provider_calls, summary_gen, summary_posts, cause>>
authVars == <<a_pc, pat_token, a_session, a_objects, a_returned, a_last>>
factoryVars == <<f_pc, f_providers, f_log, f_last>>
raceVars == <<t_pc, t_new, t_got>>
promptVars == <<q_pc, prompt, max_length, max_tokens, estimator, optimized, reoptimized>>
providerVars == <<m_pc, model, timeout, api_key, client_timeout, params>>
vars == <<parserVars, selectorVars, postingVars, runVars, authVars, factoryVars,
          raceVars, promptVars, providerVars>>

(***************************************************************************)
(* Bounds of the model.                                                    *)
(***************************************************************************)
MaxItems == 2      \* elements of a reply's JSON array / comments per batch
MaxChanges == 3    \* change records handed to the selector
MaxBatch == 3      \* comments handed to post_review_comments
MaxFiles == 2      \* files of a review run
MaxThreads == 3    \* threads calling get_session at once
MaxLimit == 2      \* token limits handed to optimize_prompt

(***************************************************************************)
(* Text.  A string body is a sequence of runs [c, n]: n >= 1 characters of *)
(* class c, adjacent runs having different classes.  Classes: "w" blank,   *)
(* "n" newline, "x" any non-whitespace character, "m" the characters of    *)
(* the marker's bracketed words.                                           *)
(***************************************************************************)
RECURSIVE TLen(_)
TLen(r) == IF r = <<>> THEN 0 ELSE Head(r).n + TLen(Tail(r))

\* r[:k]
RECURSIVE TTake(_, _)
TTake(r, k) ==
    IF k <= 0 \/ r = <<>> THEN <<>>
    ELSE IF Head(r).n >= k THEN <<[c |-> Head(r).c, n |-> k]>>
    ELSE <<Head(r)>> \o TTake(Tail(r), k - Head(r).n)

\* r1 + r2
TCat(r1, r2) ==
    IF r1 = <<>> THEN r2
    ELSE IF r2 = <<>> THEN r1
    ELSE IF r1[Len(r1)].c = Head(r2).c
         THEN SubSeq(r1, 1, Len(r1) - 1)
              \o <<[c |-> Head(r2).c, n |-> r1[Len(r1)].n + Head(r2).n]>>
              \o Tail(r2)
    ELSE r1 \o r2

IsSpace(c) == c \in {"w", "n"}

\* r.strip() == ""
StripIsEmpty(r) == \A i \in 1..Len(r) : IsSpace(r[i].c)

Run(c, n) == IF n <= 0 THEN <<>> ELSE <<[c |-> c, n |-> n]>>

(***************************************************************************)
(* JSON values of a decoded reply.  "str" is a short literal string,       *)
(* "text" a free-text string (runs), "dict" an object whose members are    *)
(* the fields of d.  Python's None is JNull.                               *)
(***************************************************************************)
JNull == [t |-> "null"]
JInt(n) == [t |-> "int", n |-> n]
JBool(b) == [t |-> "bool", b |-> b]
JStr(s) == [t |-> "str", s |-> s]
JText(r) == [t |-> "text", r |-> r]
JList == [t |-> "list"]          \* a non-empty JSON array used as a value
JDict(d) == [t |-> "dict", d |-> d]

IsString(v) == v.t \in {"str", "text"}

\* bool(v)
Truthy(v) ==
    CASE v.t = "null" -> FALSE
      [] v.t = "int" -> v.n # 0
      [] v.t = "bool" -> v.b
      [] v.t = "str" -> v.s # ""
      [] v.t = "text" -> v.r # <<>>
      [] OTHER -> TRUE

\* a or b
PyOr(a, b) == IF Truthy(a) THEN a ELSE b

\* data.get(key)
Get(data, key) == IF key \in DOMAIN data THEN data[key] ELSE JNull

\* data.get(key, default)
GetDefault(data, key, default) == IF key \in DOMAIN data THEN data[key] ELSE default

\* The numerals that occur in the replies of the model, as int(s) reads them.
Numerals == [s \in {"7", "0", " 3 ", "-2"} |->
               CASE s = "7" -> 7 [] s = "0" -> 0 [] s = " 3 " -> 3 [] s = "-2" -> 0 - 2]

\* int(v) for a value that is not None: the integer, or the exception raised.
IntOf(v) ==
    CASE v.t = "int" -> [ok |-> TRUE, n |-> v.n]
      [] v.t = "bool" -> [ok |-> TRUE, n |-> IF v.b THEN 1 ELSE 0]
      [] v.t = "str" -> IF v.s \in DOMAIN Numerals
                        THEN [ok |-> TRUE, n |-> Numerals[v.s]]
                        ELSE [ok |-> FALSE, e |-> "ValueError"]
      [] v.t = "text" -> [ok |-> FALSE, e |-> "ValueError"]
      [] OTHER -> [ok |-> FALSE, e |-> "TypeError"]

\* s.lower() on the literal strings of the model.
Lower(s) ==
    CASE s = "MAJOR" -> "major"
      [] s = "Critical" -> "critical"
      [] s = "Bugs" -> "bugs"
      [] s = "OpenAI" -> "openai"
      [] OTHER -> s

valid_severities == {"critical", "major", "minor", "suggestion"}

valid_categories == {"security", "performance", "code_quality",
                     "best_practices", "bugs", "documentation", "general"}

ReviewComment(file_path, line_number, content, severity, category) ==
    [file_path |-> file_path, line_number |-> line_number, content |-> content,
     severity |-> severity, category |-> category]

\* parse_comment_dict passing an unknown severity or category through
parse_comment_dict_NoDefaults(data, file_path) ==
    LET line_number == PyOr(Get(data, "line_number"), Get(data, "line"))
        content == PyOr(PyOr(Get(data, "content"), Get(data, "description")),
                        Get(data, "message"))
        sev == GetDefault(data, "severity", JStr("suggestion"))
        cat == GetDefault(data, "category", JStr("code_quality"))
    IN  IF line_number = JNull \/ ~Truthy(content) THEN [k |-> "none"]
        ELSE IF ~IntOf(line_number).ok THEN [k |-> "none"]
        ELSE IF ~IsString(sev) \/ ~IsString(cat) THEN [k |-> "raise", e |-> "AttributeError"]
        ELSE [k |-> "comment",
              c |-> ReviewComment(file_path, IntOf(line_number).n, content,
                                  Lower(sev.s), Lower(cat.s))]

\* ResponseParser.parse_comment_dict: [k |-> "comment", c |-> the comment],
\* [k |-> "none"] for a None return, [k |-> "raise", e |-> exception] when an
\* exception leaves the function.
parse_comment_dict(data, file_path) ==
    LET line_number == PyOr(Get(data, "line_number"), Get(data, "line"))
        content == PyOr(PyOr(Get(data, "content"), Get(data, "description")),
                        Get(data, "message"))
        sev == GetDefault(data, "severity", JStr("suggestion"))
        cat == GetDefault(data, "category", JStr("code_quality"))
    IN  IF line_number = JNull \/ ~Truthy(content) THEN [k |-> "none"]
        ELSE IF ~IntOf(line_number).ok
             THEN IF IntOf(line_number).e \in {"ValueError", "TypeError"}
                  THEN [k |-> "none"]
                  ELSE [k |-> "raise", e |-> IntOf(line_number).e]
        ELSE IF ~IsString(sev) THEN [k |-> "raise", e |-> "AttributeError"]
        ELSE IF ~IsString(cat) THEN [k |-> "raise", e |-> "AttributeError"]
        ELSE LET severity == IF Lower(sev.s) \in valid_severities
                             THEN Lower(sev.s) ELSE "suggestion"
                 category == IF Lower(cat.s) \in valid_categories
                             THEN Lower(cat.s) ELSE "code_quality"
             IN  [k |-> "comment",
                  c |-> ReviewComment(file_path, IntOf(line_number).n, content,
                                      severity, category)]

(***************************************************************************)
(* A reply is a sequence of segments: prose without brackets, a fenced     *)
(* code block (tag "json", "" or another language) around a payload, or a  *)
(* payload in the raw text.  A payload is a bracket-delimited stretch of   *)
(* text: a well-formed JSON array of items, or text json.loads rejects.    *)
(* chars is its length in characters.                                      *)
(***************************************************************************)
Prose == [k |-> "prose"]
Fence(tag, payload) == [k |-> "fence", tag |-> tag, body |-> payload]
Raw(payload) == [k |-> "raw", body |-> payload]
ArrayText(items) == [p |-> "array", items |-> items, chars |-> 2 + 10 * Len(items)]
BadJson(objlike) == [p |-> "badjson", objlike |-> objlike, chars |-> 9]

\* the payload matches \[\s*\{.*?\}\s*\] : it opens with an object and
\* closes with one
ObjectLooking(payload) ==
    IF payload.p = "array"
    THEN /\ payload.items # <<>>
         /\ Head(payload.items).t = "dict"
         /\ payload.items[Len(payload.items)].t = "dict"
    ELSE payload.objlike

\* max(matches, key=len): the first of the longest
RECURSIVE Longest(_)
Longest(matches) ==
    IF Len(matches) = 1 THEN Head(matches)
    ELSE LET rest == Longest(Tail(matches))
         IN  IF Head(matches).chars >= rest.chars THEN Head(matches) ELSE rest

NoMatch == [p |-> "none"]

\* extract_json preferring the longest object-looking array to a fenced block
extract_json_LongestFirst(text) ==
    LET blocks == SelectSeq(text, LAMBDA sg : sg.k = "fence" /\ sg.tag \in {"json", ""})
        arrays == SelectSeq(text, LAMBDA sg : sg.k \in {"fence", "raw"}
                                              /\ ObjectLooking(sg.body))
    IN  IF arrays # <<>>
        THEN Longest([i \in 1..Len(arrays) |-> arrays[i].body])
        ELSE IF blocks # <<>> THEN Head(blocks).body
        ELSE IF text # <<>> /\ Head(text).k = "raw" /\ text[Len(text)].k = "raw"
             THEN IF Len(text) = 1 THEN Head(text).body ELSE BadJson(FALSE)
        ELSE NoMatch

\* ResponseParser.extract_json: the extracted candidate, or NoMatch for None.
extract_json(text) ==
    LET blocks == SelectSeq(text, LAMBDA sg : sg.k = "fence" /\ sg.tag \in {"json", ""})
        arrays == SelectSeq(text, LAMBDA sg : sg.k \in {"fence", "raw"}
                                              /\ ObjectLooking(sg.body))
    IN  IF blocks # <<>> THEN Head(blocks).body
        ELSE IF arrays # <<>>
             THEN Longest([i \in 1..Len(arrays) |-> arrays[i].body])
        ELSE IF text # <<>> /\ Head(text).k = "raw" /\ text[Len(text)].k = "raw"
             THEN IF Len(text) = 1 THEN Head(text).body ELSE BadJson(FALSE)
        ELSE NoMatch

\* json.loads on an extracted candidate
json_loads(json_str) ==
    IF json_str.p = "array"
    THEN [ok |-> TRUE, data |-> json_str.items]
    ELSE [ok |-> FALSE, e |-> "JSONDecodeError"]

\* the loop leaving the array at the first element it cannot use
RECURSIVE ParseItems_StopAtBad(_, _)
ParseItems_StopAtBad(data, file_path) ==
    IF data = <<>> THEN <<>>
    ELSE LET item == Head(data)
         IN  IF item.t # "dict" THEN <<>>
             ELSE LET r == parse_comment_dict(item.d, file_path)
                  IN  IF r.k = "comment"
                      THEN <<r.c>> \o ParseItems_StopAtBad(Tail(data), file_path)
                      ELSE <<>>

\* the loop of parse_review_response over the decoded array
RECURSIVE ParseItems(_, _)
ParseItems(data, file_path) ==
    IF data = <<>> THEN <<>>
    ELSE LET item == Head(data)
             rest == ParseItems(Tail(data), file_path)
         IN  IF item.t # "dict" THEN rest
             ELSE LET r == parse_comment_dict(item.d, file_path)
                  IN  IF r.k = "comment" THEN <<r.c>> \o rest ELSE rest

\* ResponseParser.parse_review_response: [raised, out]
parse_review_response(text, file_path) ==
    LET json_str == extract_json(text)
    IN  IF json_str = NoMatch THEN [raised |-> FALSE, out |-> <<>>]
        ELSE IF ~json_loads(json_str).ok
             THEN IF json_loads(json_str).e = "JSONDecodeError"
                  THEN [raised |-> FALSE, out |-> <<>>]
                  ELSE [raised |-> TRUE, out |-> <<>>]
        ELSE [raised |-> FALSE,
              out |-> ParseItems(json_loads(json_str).data, file_path)]

Ceiling == 3500
Marker == <<[c |-> "n", n |-> 2], [c |-> "m", n |-> 22]>>

\* validate_comments truncating from Ceiling characters on (">=" for ">")
RECURSIVE validate_comments_AtCeiling(_)
validate_comments_AtCeiling(cs) ==
    IF cs = <<>> THEN [raised |-> FALSE, out |-> <<>>]
    ELSE LET comment == Head(cs)
             rest == validate_comments_AtCeiling(Tail(cs))
         IN  IF comment.line_number <= 0 THEN rest
             ELSE IF ~Truthy(comment.content) THEN rest
             ELSE IF ~IsString(comment.content) THEN [raised |-> TRUE, out |-> <<>>]
             ELSE IF StripIsEmpty(comment.content.r) THEN rest
             ELSE LET kept ==
                        IF TLen(comment.content.r) >= Ceiling
                        THEN [comment EXCEPT !.content =
                                 JText(TCat(TTake(comment.content.r, Ceiling), Marker))]
                        ELSE comment
                  IN  IF rest.raised THEN rest
                      ELSE [raised |-> FALSE, out |-> <<kept>> \o rest.out]

\* ResponseParser.validate_comments: [raised, out].  A body that is not a
\* string has no strip(): the AttributeError leaves the function.
RECURSIVE validate_comments(_)
validate_comments(cs) ==
    IF cs = <<>> THEN [raised |-> FALSE, out |-> <<>>]
    ELSE LET comment == Head(cs)
             rest == validate_comments(Tail(cs))
         IN  IF comment.line_number <= 0 THEN rest
             ELSE IF ~Truthy(comment.content) THEN rest
             ELSE IF ~IsString(comment.content) THEN [raised |-> TRUE, out |-> <<>>]
             ELSE IF StripIsEmpty(comment.content.r) THEN rest
             ELSE LET kept ==
                        IF TLen(comment.content.r) > Ceiling
                        THEN [comment EXCEPT !.content =
                                 JText(TCat(TTake(comment.content.r, Ceiling), Marker))]
                        ELSE comment
                  IN  IF rest.raised THEN rest
                      ELSE [raised |-> FALSE, out |-> <<kept>> \o rest.out]


(***************************************************************************)
(* Inputs of the parser: the items of a reply's array, the replies, and    *)
(* the batches handed directly to validate_comments.                       *)
(***************************************************************************)
PathA == <<"src", "/", "a", ".", "py">>
PathB == <<"lib", ".", "min", ".", "js">>

OkBody == JText(Run("x", 2))

Bodies == {JText(<<>>), JText(Run("w", 3)), OkBody,
           JText(Run("x", Ceiling - 1)), JText(Run("x", Ceiling)),
           JText(Run("x", Ceiling + 1)), JText(Run("w", Ceiling + 1)),
           JText(Run("x", Ceiling - 1) \o Run("w", 5))}

LineItems ==
    {JDict([line_number |-> v, content |-> OkBody]) :
        v \in {JInt(5), JInt(1), JInt(0), JInt(0 - 1), JStr("7"), JStr("0"),
               JStr(" 3 "), JStr("abc"), JNull, JList, JBool(TRUE)}}
    \cup {JDict([line |-> JInt(2), content |-> OkBody]),
          JDict([content |-> OkBody]),
          JDict([line_number |-> JInt(0), line |-> JInt(3), content |-> OkBody])}

BodyItems ==
    {JDict([line |-> JInt(4), content |-> b]) : b \in Bodies \cup {JInt(123), JNull, JList}}
    \cup {JDict([line |-> JInt(4), description |-> OkBody]),
          JDict([line |-> JInt(4), message |-> OkBody]),
          JDict([line |-> JInt(4)]),
          JDict([line |-> JInt(4), content |-> JText(<<>>), message |-> OkBody])}

SeverityItems ==
    {JDict([line_number |-> JInt(5), content |-> OkBody, severity |-> v]) :
        v \in {JStr("critical"), JStr("MAJOR"), JStr("minor"), JStr("suggestion"),
               JStr("blah"), JStr("error"), JNull, JInt(3)}}
    \cup {JDict([line_number |-> JInt(5), content |-> OkBody,
                 severity |-> JStr("major"), category |-> v]) :
            v \in {JStr("security"), JStr("Bugs"), JStr("general"), JStr("x"), JNull}}
    \cup {JDict([line_number |-> JInt(5), severity |-> JStr("blah"),
                 category |-> JStr("x"), content |-> OkBody])}

Items == LineItems \cup BodyItems \cup SeverityItems \cup {JInt(1), JStr("note")}

SeqsUpTo(S, n) == UNION {[1..k -> S] : k \in 0..n}

Arrays == SeqsUpTo(Items, MaxItems)

CleanItem == JDict([line |-> JInt(2), content |-> OkBody])

ShapePayloads == {ArrayText(<<>>), ArrayText(<<CleanItem>>),
                  ArrayText(<<JInt(1), CleanItem>>), ArrayText(<<CleanItem, JInt(1)>>),
                  ArrayText(<<CleanItem, CleanItem>>), BadJson(TRUE), BadJson(FALSE)}

Replies ==
    {<<Prose, Fence("json", ArrayText(a))>> : a \in Arrays}
    \cup {<<Prose>>, <<>>}
    \cup {<<Raw(q)>> : q \in ShapePayloads}
    \cup {<<Prose, Raw(q), Prose>> : q \in ShapePayloads}
    \cup {<<Fence("", q)>> : q \in ShapePayloads}
    \cup {<<Prose, Fence("py", q)>> : q \in ShapePayloads}
    \cup {<<Raw(q), Prose, Raw(ArrayText(<<JInt(1)>>))>> : q \in ShapePayloads}
    \cup {<<Raw(q), Fence("json", ArrayText(<<CleanItem>>))>> : q \in ShapePayloads}

\* ReviewComment values as a caller constructs them: typed fields.
TypedComments ==
    {ReviewComment(PathA, n, b, "minor", "general") : n \in {0 - 1, 0, 1, 2}, b \in Bodies}

Batches == SeqsUpTo(TypedComments, MaxItems)

(***************************************************************************)
(* The parser: parse a reply, then validate; or validate a batch.          *)
(***************************************************************************)
ParserIdle ==
    /\ p_pc = "idle" /\ response_text = <<>> /\ p_comments = <<>>
    /\ p_json = NoMatch
    /\ p_valid = [raised |-> FALSE, out |-> <<>>]

ParserInit ==
    /\ p_valid = [raised |-> FALSE, out |-> <<>>]
    /\ p_json = NoMatch
    /\ \/ p_pc = "reply" /\ response_text \in Replies /\ p_comments = <<>>
       \/ p_pc = "batch" /\ response_text = <<>> /\ p_comments \in Batches

ParseReviewResponse ==
    /\ p_pc = "reply"
    /\ LET r == parse_review_response(response_text, PathA)
       IN  /\ p_pc' = IF r.raised THEN "raised" ELSE "parsed"
           /\ p_comments' = r.out
    /\ p_json' = extract_json(response_text)
    /\ UNCHANGED <<response_text, p_valid>>

ValidateComments ==
    /\ p_pc \in {"parsed", "batch"}
    /\ p_valid' = validate_comments(p_comments)
    /\ p_pc' = IF p_pc = "parsed" THEN "validated" ELSE "batch_validated"
    /\ UNCHANGED <<response_text, p_json, p_comments>>


(***************************************************************************)
(* Change selector.  A path is a sequence of tokens (names, "/", "."); an  *)
(* extension or a glob pattern is a sequence of tokens too, "*" standing   *)
(* for any stretch of the path.                                            *)
(***************************************************************************)
\* str.lower() on the tokens of the model's paths
LowerToken(tok) ==
    CASE tok = "PNG" -> "png"
      [] tok = "PY" -> "py"
      [] OTHER -> tok

PathLower(path) == [i \in 1..Len(path) |-> LowerToken(path[i])]

\* path.endswith(ext)
EndsWith(path, ext) ==
    /\ Len(ext) <= Len(path)
    /\ SubSeq(path, Len(path) - Len(ext) + 1, Len(path)) = ext

binary_extensions ==
    {<<".", e>> : e \in {"png", "jpg", "jpeg", "gif", "bmp", "ico", "pdf", "zip",
                         "tar", "gz", "exe", "dll", "so", "dylib", "class", "jar",
                         "war"}}

\* is_binary without lower()
is_binary_CaseSensitive(file_diff) ==
    \E ext \in binary_extensions : EndsWith(file_diff.path, ext)

\* FileDiff.is_binary
is_binary(file_diff) ==
    \E ext \in binary_extensions : EndsWith(PathLower(file_diff.path), ext)

\* fnmatch.fnmatch(path, pattern) (POSIX: case-sensitive)
RECURSIVE fnmatch(_, _)
fnmatch(path, pattern) ==
    IF pattern = <<>> THEN path = <<>>
    ELSE IF Head(pattern) = "*"
         THEN \/ fnmatch(path, Tail(pattern))
              \/ path # <<>> /\ fnmatch(Tail(path), pattern)
    ELSE /\ path # <<>>
         /\ Head(path) = Head(pattern)
         /\ fnmatch(Tail(path), Tail(pattern))

\* One pass of the loop body of filter_reviewable_files: TRUE when the
\* record reaches reviewable.append.  An absent (None) list is the empty one.
Appended(file_diff, allowed, patterns) ==
    IF is_binary(file_diff) THEN FALSE
    ELSE IF file_diff.change_type = "delete" THEN FALSE
    ELSE IF allowed # <<>>
            /\ ~(\E i \in 1..Len(allowed) : EndsWith(file_diff.path, allowed[i]))
         THEN FALSE
    ELSE IF patterns # <<>>
            /\ (\E i \in 1..Len(patterns) : fnmatch(file_diff.path, patterns[i]))
         THEN FALSE
    ELSE TRUE

\* the loop of filter_reviewable_files
ReviewableOf(changes, allowed, patterns) ==
    SelectSeq(changes, LAMBDA f : Appended(f, allowed, patterns))

\* the truncation keeping one record too many
Limit_OneMore(list, n) == IF Len(list) > n THEN SubSeq(list, 1, n + 1) ELSE list

\* "if len(reviewable) > max_files: reviewable = reviewable[:max_files]"
Limit(list, n) == IF Len(list) > n THEN SubSeq(list, 1, n) ELSE list

\* AzureDevOpsClient.filter_reviewable_files
filter_reviewable_files(changes, allowed, patterns, n) ==
    Limit(ReviewableOf(changes, allowed, patterns), n)

DefaultMaxFiles == 50

FileDiff(path, change_type) == [path |-> path, change_type |-> change_type]

FileDiffs ==
    {FileDiff(PathA, "edit"), FileDiff(PathA, "delete"), FileDiff(PathB, "add"),
     FileDiff(<<"img", ".", "PNG">>, "edit"), FileDiff(<<"doc", ".", "md">>, "rename"),
     FileDiff(<<"pic", ".", "png">>, "delete"), FileDiff(<<"b", ".", "PY">>, "edit")}

AllowLists == {<<>>, <<<<".", "py">>>>, <<<<".", "js">>, <<".", "md">>, <<".", "PNG">>>>}

ExcludeLists == {<<>>, <<<<"*", ".", "min", ".", "js">>>>,
                 <<<<"src", "/", "*">>, <<"*", ".", "png">>>>}

SelectorIdle ==
    /\ s_pc = "idle" /\ file_changes = <<>> /\ allowed_extensions = <<>>
    /\ exclude_patterns = <<>> /\ max_files = 0 /\ reviewable = <<>> /\ s_result = <<>>

SelectorInit ==
    /\ s_pc = "start"
    /\ file_changes \in SeqsUpTo(FileDiffs, MaxChanges)
    /\ allowed_extensions \in AllowLists
    /\ exclude_patterns \in ExcludeLists
    /\ max_files \in {0, 1, 2, MaxChanges, DefaultMaxFiles}
    /\ reviewable = <<>> /\ s_result = <<>>

FilterReviewableFiles ==
    /\ s_pc = "start"
    /\ reviewable' = ReviewableOf(file_changes, allowed_extensions, exclude_patterns)
    /\ s_result' = filter_reviewable_files(file_changes, allowed_extensions,
                                           exclude_patterns, max_files)
    /\ s_pc' = "filtered"
    /\ UNCHANGED <<file_changes, allowed_extensions, exclude_patterns, max_files>>

\* get_reviewable_files of the review script: filter_reviewable_files is
\* called with config.review.file_extensions and exclude_patterns only, so
\* its max_files is the default whatever config.review.max_files_per_review
\* (configured) says
get_reviewable_files(changes, allowed, patterns, configured) ==
    filter_reviewable_files(changes, allowed, patterns, DefaultMaxFiles)

\* the selection step of a review run, max_files being the configured
\* review.max_files_per_review
SelectForReview ==
    /\ s_pc = "start"
    /\ reviewable' = ReviewableOf(file_changes, allowed_extensions, exclude_patterns)
    /\ s_result' = get_reviewable_files(file_changes, allowed_extensions,
                                        exclude_patterns, max_files)
    /\ s_pc' = "selected"
    /\ UNCHANGED <<file_changes, allowed_extensions, exclude_patterns, max_files>>


(***************************************************************************)
(* Posting.  create_comment_thread returns the created thread or raises:   *)
(* a requests.RequestException from the transport, or any other exception  *)
(* from formatting the comment or decoding the answer.                     *)
(***************************************************************************)
ThreadOutcomes == {"ok", "RequestException", "ValueError"}

\* post_review_comments catching only transport errors
PostingCatches_RequestOnly(e) == e = "RequestException"

\* "except Exception" of post_review_comments
PostingCatches(e) == e \in {"RequestException", "ValueError"}

\* results = {"total": len(comments), "success": 0, "failed": 0, "errors": []}
NewResults(batch) == [total |-> Len(batch), success |-> 0, failed |-> 0, errors |-> <<>>]

\* One pass of the loop body of post_review_comments, the call to
\* create_comment_thread having ended in outcome.
PostOne(res, comment, outcome) ==
    IF outcome = "ok"
    THEN [raised |-> FALSE, res |-> [res EXCEPT !.success = @ + 1]]
    ELSE IF PostingCatches(outcome)
         THEN [raised |-> FALSE,
               res |-> [res EXCEPT !.failed = @ + 1,
                                   !.errors = Append(@, [file_path |-> comment.file_path,
                                                         line_number |-> comment.line_number,
                                                         e |-> outcome])]]
    ELSE [raised |-> TRUE, res |-> res]

\* CommentClient.post_review_comments as one call, outs[i] being the outcome
\* of the i-th create_comment_thread call.
RECURSIVE PostLoop(_, _, _, _)
PostLoop(res, batch, outs, i) ==
    IF i > Len(batch) THEN [raised |-> FALSE, res |-> res]
    ELSE LET r == PostOne(res, batch[i], outs[i])
         IN  IF r.raised THEN r ELSE PostLoop(r.res, batch, outs, i + 1)

post_review_comments(batch, outs) == PostLoop(NewResults(batch), batch, outs, 1)

PostableComments ==
    {ReviewComment(PathA, 1, OkBody, "critical", "security"),
     ReviewComment(PathA, 2, OkBody, "minor", "general"),
     ReviewComment(PathB, 7, OkBody, "suggestion", "code_quality")}

PostingIdle ==
    /\ c_pc = "idle" /\ c_comments = <<>> /\ c_i = 0
    /\ c_results = NewResults(<<>>) /\ c_attempts = <<>> /\ comments_posted = 0

PostingInit ==
    /\ c_pc = "call"
    /\ c_comments \in SeqsUpTo(PostableComments, MaxBatch)
    /\ c_i = 0 /\ c_results = NewResults(<<>>) /\ c_attempts = <<>>
    /\ comments_posted = 0

PostEnter ==
    /\ c_pc = "call"
    /\ c_results' = NewResults(c_comments)
    /\ c_i' = 1
    /\ c_pc' = "posting"
    /\ UNCHANGED <<c_comments, c_attempts, comments_posted>>

PostComment ==
    /\ c_pc = "posting" /\ c_i <= Len(c_comments)
    /\ \E outcome \in ThreadOutcomes :
         LET r == PostOne(c_results, c_comments[c_i], outcome)
         IN  /\ c_attempts' = Append(c_attempts, c_comments[c_i])
             /\ c_results' = r.res
             /\ c_pc' = IF r.raised THEN "raised" ELSE "posting"
             /\ c_i' = c_i + 1
    /\ UNCHANGED <<c_comments, comments_posted>>

PostReturn ==
    /\ c_pc = "posting" /\ c_i > Len(c_comments)
    /\ c_pc' = "returned"
    /\ UNCHANGED <<c_comments, c_i, c_results, c_attempts, comments_posted>>


(***************************************************************************)
(* The review run: LLMReviewClient.review_pull_request, perform_review's   *)
(* per-file cap, and post_results.                                         *)
(***************************************************************************)
RECURSIVE Concat(_)
Concat(ss) == IF ss = <<>> THEN <<>> ELSE Head(ss) \o Concat(Tail(ss))

Raise == [k |-> "raise"]
Reply(text) == [k |-> "reply", text |-> text]

\* review_file catching only what the parser raises
ReviewCatches_ParserOnly(e) == e \in {"ParseError", "AttributeError"}

\* "except Exception" of review_file: every exception of the try block
ReviewCatches(e) == e \in {"ProviderError", "ParseError", "AttributeError"}

\* LLMReviewClient.review_file, the provider call having ended in outcome:
\* [raised, out]
review_file(path, outcome) ==
    IF outcome.k = "raise"
    THEN [raised |-> ~ReviewCatches("ProviderError"), out |-> <<>>]
    ELSE LET parsed == parse_review_response(outcome.text, path)
         IN  IF parsed.raised
             THEN [raised |-> ~ReviewCatches("ParseError"), out |-> <<>>]
             ELSE LET valid == validate_comments(parsed.out)
                  IN  IF valid.raised
                      THEN [raised |-> ~ReviewCatches("AttributeError"), out |-> <<>>]
                      ELSE [raised |-> FALSE, out |-> valid.out]

\* severity_order.get(c.severity, 99) of perform_review
severity_order(severity) ==
    CASE severity = "critical" -> 0
      [] severity = "error" -> 1
      [] severity = "warning" -> 2
      [] severity = "suggestion" -> 3
      [] OTHER -> 99

\* list.sort(key=...): stable, ascending
RECURSIVE InsertByKey(_, _)
InsertByKey(sorted, c) ==
    IF sorted = <<>> THEN <<c>>
    ELSE IF severity_order(c.severity) < severity_order(Head(sorted).severity)
         THEN <<c>> \o sorted
    ELSE <<Head(sorted)>> \o InsertByKey(Tail(sorted), c)

RECURSIVE SortBySeverity(_)
SortBySeverity(cs) ==
    IF cs = <<>> THEN <<>>
    ELSE InsertByKey(SortBySeverity(SubSeq(cs, 1, Len(cs) - 1)), cs[Len(cs)])

\* the keys of comments_by_file, in insertion order
RECURSIVE FileOrder(_)
FileOrder(cs) ==
    IF cs = <<>> THEN <<>>
    ELSE LET before == FileOrder(SubSeq(cs, 1, Len(cs) - 1))
             path == cs[Len(cs)].file_path
         IN  IF \E i \in 1..Len(before) : before[i] = path
             THEN before ELSE Append(before, path)

Take(list, n) == SubSeq(list, 1, IF n < Len(list) THEN n ELSE Len(list))

\* limited_comments of perform_review
LimitedComments(cs, n) ==
    LET paths == FileOrder(cs)
    IN  Concat([i \in 1..Len(paths) |->
                  Take(SortBySeverity(SelectSeq(cs, LAMBDA c : c.file_path = paths[i])), n)])

\* the cap of perform_review ("if max_issues > 0: ...")
CapPerFile(cs, n) ==
    IF n > 0 /\ Len(LimitedComments(cs, n)) < Len(cs)
    THEN LimitedComments(cs, n)
    ELSE cs

DefaultMaxIssues == 10
MaxCap == 2

PathC == <<"doc", ".", "md">>
RunPaths == <<PathA, PathB, PathC, <<"d", ".", "py">>, <<"e", ".", "py">>>>

RunItems ==
    {JDict([line_number |-> JInt(1), content |-> OkBody,
            severity |-> JStr("critical"), category |-> JStr("security")]),
     JDict([line |-> JInt(2), content |-> OkBody, severity |-> JStr("MAJOR")]),
     JDict([line_number |-> JInt(3), severity |-> JStr("blah"), category |-> JStr("x"),
            content |-> OkBody]),
     JDict([line_number |-> JStr("0"), content |-> OkBody]),
     JDict([line |-> JInt(4), content |-> JInt(123)])}

ProviderOutcomes ==
    {Raise, Reply(<<Prose>>)}
    \cup {Reply(<<Prose, Fence("json", ArrayText(a))>>) : a \in SeqsUpTo(RunItems, MaxItems)}

(***************************************************************************)
(* Resilient transport: AzureDevOpsAuth, its retry strategy, and the       *)
(* clients that send their requests on its session.  A session object is   *)
(* its index in a_objects; 0 stands for None.                              *)
(***************************************************************************)
MaxSessions == 2     \* requests.Session objects constructed in a behaviour
MaxTransient == 4    \* transient answers of the host before its final one

\* _create_auth_header: [raised, header]
create_auth_header(token) ==
    IF ~token THEN [raised |-> TRUE, header |-> ""]
    ELSE [raised |-> FALSE, header |-> "Basic"]

\* requests.Session(): no Authorization header yet, never closed
NewSession == [authorization |-> "", closes |-> 0]

\* _create_session: [raised, id, objects]; the object is constructed before
\* the header is computed
create_session(objects, token) ==
    LET id == Len(objects) + 1
        made == Append(objects, NewSession)
        h == create_auth_header(token)
    IN  IF h.raised
        THEN [raised |-> TRUE, id |-> 0, objects |-> made]
        ELSE [raised |-> FALSE, id |-> id,
              objects |-> [made EXCEPT ![id].authorization = h.header]]

\* get_session constructing a session on every call
get_session_AlwaysNew(session, objects, token) ==
    LET c == create_session(objects, token)
    IN  [raised |-> c.raised, id |-> c.id, session |-> c.id, objects |-> c.objects]

\* get_session storing the object before its header is set
get_session_StoreFirst(session, objects, token) ==
    IF session = 0
    THEN LET c == create_session(objects, token)
         IN  [raised |-> c.raised, id |-> c.id, session |-> Len(c.objects),
              objects |-> c.objects]
    ELSE [raised |-> FALSE, id |-> session, session |-> session, objects |-> objects]

\* get_session: [raised, id, session, objects]; self._session is assigned
\* only when _create_session returned
get_session(session, objects, token) ==
    IF session = 0
    THEN LET c == create_session(objects, token)
         IN  [raised |-> c.raised, id |-> c.id, session |-> c.id, objects |-> c.objects]
    ELSE [raised |-> FALSE, id |-> session, session |-> session, objects |-> objects]

\* close that leaves self._session set
close_KeepHandle(session, objects) ==
    IF session # 0
    THEN [session |-> session, closed |-> session,
          objects |-> [objects EXCEPT ![session].closes = @ + 1]]
    ELSE [session |-> 0, closed |-> 0, objects |-> objects]

\* close: [session, closed, objects]
close(session, objects) ==
    IF session # 0
    THEN [session |-> 0, closed |-> session,
          objects |-> [objects EXCEPT ![session].closes = @ + 1]]
    ELSE [session |-> 0, closed |-> 0, objects |-> objects]

\* Retry(total=3, status_forcelist=[...], allowed_methods=[...])
RetryTotal == 3
status_forcelist == {429, 500, 502, 503, 504}
allowed_methods == {"HEAD", "GET", "PUT", "DELETE", "OPTIONS", "TRACE", "POST"}

\* the verbs the clients send
Verbs == {"GET", "POST", "PUT", "PATCH", "DELETE"}

\* what the host does with one attempt
Status(code) == [k |-> "status", code |-> code]
ConnectError == [k |-> "connect_error", code |-> 0]

\* k transient answers, then the final one
HostReplies(transient, k, final) ==
    [i \in 1..(k + 1) |-> IF i <= k THEN transient ELSE final]

\* Retry.is_retry(method, status_code)
is_retry(method, code) == method \in allowed_methods /\ code \in status_forcelist

\* HTTPAdapter.send with max_retries: the attempts made on replies[i..] with
\* total retries left, and what reaches the caller.  A connect error is
\* retried whatever the method; Retry.increment raises once total is used up.
RECURSIVE urlopen(_, _, _, _)
urlopen(method, replies, i, total) ==
    LET r == replies[i]
    IN  IF r.k = "connect_error"
        THEN IF total = 0
             THEN [attempts |-> i, out |-> "ConnectionError", code |-> 0]
             ELSE urlopen(method, replies, i + 1, total - 1)
        ELSE IF is_retry(method, r.code)
             THEN IF total = 0
                  THEN [attempts |-> i, out |-> "RetryError", code |-> r.code]
                  ELSE urlopen(method, replies, i + 1, total - 1)
             ELSE [attempts |-> i, out |-> "response", code |-> r.code]

\* session.<verb>(url, ...) followed by response.raise_for_status()
session_request(method, replies) ==
    LET u == urlopen(method, replies, 1, RetryTotal)
    IN  IF u.out = "response" /\ u.code >= 400 THEN [u EXCEPT !.out = "HTTPError"]
        ELSE u

\* the exceptions of requests.exceptions.RequestException
RequestExceptions == {"HTTPError", "RetryError", "ConnectionError"}

\* a request that was never sent because get_session raised
NotSent == [attempts |-> 0, out |-> "ValueError", code |-> 0]

\* get_pull_request answering None to every HTTP error
get_pull_request_AnyHTTPError(sent) ==
    IF sent.out = "response" THEN [raised |-> FALSE, ret |-> "PullRequest"]
    ELSE IF sent.out = "HTTPError" THEN [raised |-> FALSE, ret |-> "None"]
    ELSE [raised |-> TRUE, ret |-> "None"]

\* PullRequestClient.get_pull_request, its request having ended in sent
get_pull_request(sent) ==
    IF sent.out = "response" THEN [raised |-> FALSE, ret |-> "PullRequest"]
    ELSE IF sent.out = "HTTPError" /\ sent.code = 404
         THEN [raised |-> FALSE, ret |-> "None"]
    ELSE [raised |-> TRUE, ret |-> "None"]

\* AzureDevOpsAuth.test_connection, its request having ended in sent: SSLError
\* and every other RequestException give False, anything else propagates
test_connection(sent) ==
    IF sent.out = "response" THEN [raised |-> FALSE, ret |-> "True"]
    ELSE IF sent.out \in RequestExceptions THEN [raised |-> FALSE, ret |-> "False"]
    ELSE [raised |-> TRUE, ret |-> "False"]

NoOperation ==
    [op |-> "none", by |-> "", method |-> "", transient |-> Status(0), k |-> 0,
     final |-> Status(0), raised |-> FALSE, id |-> 0, attempts |-> 0, out |-> "",
     code |-> 0, ret |-> ""]

AuthIdle ==
    /\ a_pc = "idle" /\ pat_token = FALSE /\ a_session = 0 /\ a_objects = <<>>
    /\ a_returned = {} /\ a_last = NoOperation

\* AzureDevOpsAuth(config)
AuthInit ==
    /\ a_pc = "live" /\ pat_token \in BOOLEAN /\ a_session = 0 /\ a_objects = <<>>
    /\ a_returned = {} /\ a_last = NoOperation

\* a call of get_session by "by" is within the bounds of the model
MayCall == a_session # 0 \/ Len(a_objects) < MaxSessions

\* the effect of a get_session call made by "by"
SessionCall(by, g) ==
    /\ a_session' = g.session
    /\ a_objects' = g.objects
    /\ a_returned' = IF g.raised THEN a_returned
                     ELSE a_returned \cup {[by |-> by, id |-> g.id]}

\* auth.get_session() called directly
GetSession ==
    /\ a_pc = "live" /\ MayCall
    /\ LET g == get_session(a_session, a_objects, pat_token)
       IN  /\ SessionCall("caller", g)
           /\ a_last' = [NoOperation EXCEPT !.op = "get_session", !.by = "caller",
                           !.raised = g.raised, !.id = g.id,
                           !.out = IF g.raised THEN "ValueError" ELSE "session"]
    /\ UNCHANGED <<a_pc, pat_token>>

\* auth.close(), called directly or by __exit__
Close ==
    /\ a_pc = "live"
    /\ \E by \in {"close", "__exit__"} :
         LET c == close(a_session, a_objects)
         IN  /\ a_session' = c.session
             /\ a_objects' = c.objects
             /\ a_last' = [NoOperation EXCEPT !.op = "close", !.by = by, !.id = c.closed]
    /\ a_returned' = {}
    /\ UNCHANGED <<a_pc, pat_token>>

\* the request of a client method on the shared session
Sent(g, method, replies) == IF g.raised THEN NotSent ELSE session_request(method, replies)

\* auth.test_connection()
TestConnection ==
    /\ a_pc = "live" /\ MayCall
    /\ \E transient \in {Status(503), ConnectError}, k \in {0, MaxTransient},
          final \in {Status(200), Status(401)} :
         LET g == get_session(a_session, a_objects, pat_token)
             sent == Sent(g, "GET", HostReplies(transient, k, final))
             t == test_connection(sent)
         IN  /\ SessionCall("test_connection", g)
             /\ a_last' = [op |-> "test_connection", by |-> "test_connection",
                           method |-> "GET", transient |-> transient, k |-> k,
                           final |-> final, raised |-> t.raised, id |-> g.id,
                           attempts |-> sent.attempts, out |-> sent.out,
                           code |-> sent.code, ret |-> t.ret]
    /\ UNCHANGED <<a_pc, pat_token>>

\* pr_client.get_pull_request(pr_id)
GetPullRequest ==
    /\ a_pc = "live" /\ MayCall
    /\ \E transient \in {Status(503), ConnectError}, k \in 0..MaxTransient,
          final \in {Status(200), Status(404), Status(401)} :
         LET g == get_session(a_session, a_objects, pat_token)
             sent == Sent(g, "GET", HostReplies(transient, k, final))
             r == get_pull_request(sent)
         IN  /\ SessionCall("pr_client", g)
             /\ a_last' = [op |-> "get_pull_request", by |-> "pr_client",
                           method |-> "GET", transient |-> transient, k |-> k,
                           final |-> final, raised |-> r.raised, id |-> g.id,
                           attempts |-> sent.attempts, out |-> sent.out,
                           code |-> sent.code, ret |-> r.ret]
    /\ UNCHANGED <<a_pc, pat_token>>

\* a client method that sends one request and re-raises what it raised:
\* create_comment_thread (POST), update_thread_status (PATCH),
\* delete_comment_thread (DELETE), the fetches of the PR client (GET)
ClientRequest ==
    /\ a_pc = "live" /\ MayCall
    /\ \E method \in Verbs, code \in status_forcelist, k \in 0..MaxTransient :
         LET g == get_session(a_session, a_objects, pat_token)
             sent == Sent(g, method, HostReplies(Status(code), k, Status(200)))
         IN  /\ SessionCall("comment_client", g)
             /\ a_last' = [op |-> "request", by |-> "comment_client",
                           method |-> method, transient |-> Status(code), k |-> k,
                           final |-> Status(200), raised |-> sent.out # "response",
                           id |-> g.id, attempts |-> sent.attempts, out |-> sent.out,
                           code |-> sent.code, ret |-> ""]
    /\ UNCHANGED <<a_pc, pat_token>>


(***************************************************************************)
(* LLMProviderFactory: the class-level registry of provider classes.  A    *)
(* dict is the sequence of its items in insertion order.                   *)
(***************************************************************************)
MaxRegistrations == 3    \* register calls in a behaviour

Keys(providers) == [i \in 1..Len(providers) |-> providers[i].name]

HasKey(providers, key) == \E i \in 1..Len(providers) : providers[i].name = key

Lookup(providers, key) ==
    providers[CHOOSE i \in 1..Len(providers) : providers[i].name = key].cls

\* cls._providers[key] = provider_class
SetItem(providers, key, provider_class) ==
    IF HasKey(providers, key)
    THEN [i \in 1..Len(providers) |->
            IF providers[i].name = key
            THEN [name |-> key, cls |-> provider_class] ELSE providers[i]]
    ELSE Append(providers, [name |-> key, cls |-> provider_class])

\* register keeping the class first registered under a name
register_KeepFirst(providers, provider_name, provider_class) ==
    IF HasKey(providers, Lower(provider_name)) THEN providers
    ELSE SetItem(providers, Lower(provider_name), provider_class)

\* LLMProviderFactory.register
register(providers, provider_name, provider_class) ==
    SetItem(providers, Lower(provider_name), provider_class)

\* LLMProviderFactory.create, provider_name being config.provider.value:
\* [raised, available, constructed]
create(providers, provider_name) ==
    IF ~HasKey(providers, provider_name)
    THEN [raised |-> TRUE, available |-> Keys(providers), constructed |-> ""]
    ELSE [raised |-> FALSE, available |-> <<>>,
          constructed |-> Lookup(providers, provider_name)]

\* names handed to register, classes, and the values of the LLMProvider enum
RegisterNames == {"openai", "OpenAI", "ollama"}
ProviderClasses == {"OpenAIProvider", "OllamaProvider", "AzureOpenAIProvider"}
LLMProvider == {"openai", "ollama", "custom"}

NoFactoryOperation ==
    [op |-> "none", name |-> "", raised |-> FALSE, available |-> <<>>,
     constructed |-> ""]

FactoryIdle ==
    /\ f_pc = "idle" /\ f_providers = <<>> /\ f_log = <<>>
    /\ f_last = NoFactoryOperation

\* _providers: Dict[str, type] = {}
FactoryInit ==
    /\ f_pc = "live" /\ f_providers = <<>> /\ f_log = <<>>
    /\ f_last = NoFactoryOperation

Register ==
    /\ f_pc = "live" /\ Len(f_log) < MaxRegistrations
    /\ \E provider_name \in RegisterNames, provider_class \in ProviderClasses :
         /\ f_providers' = register(f_providers, provider_name, provider_class)
         /\ f_log' = Append(f_log, [name |-> provider_name, cls |-> provider_class])
         /\ f_last' = [NoFactoryOperation EXCEPT !.op = "register", !.name = provider_name]
    /\ UNCHANGED f_pc

Create ==
    /\ f_pc = "live"
    /\ \E provider_name \in LLMProvider :
         LET r == create(f_providers, provider_name)
         IN  f_last' = [op |-> "create", name |-> provider_name, raised |-> r.raised,
                        available |-> r.available, constructed |-> r.constructed]
    /\ UNCHANGED <<f_pc, f_providers, f_log>>


(***************************************************************************)
(* The steps of main (task/scripts/review_pr.py).                          *)
(***************************************************************************)
NewRunResults == [comments_posted |-> 0, summary_posted |-> FALSE]

\* no summary provider call was made
NoCall == [k |-> "none"]

RunIdle ==
    /\ pc = "idle" /\ file_diffs = <<>> /\ file_contents = <<>> /\ max_issues = 0
    /\ dry_run = FALSE /\ post_comments = FALSE /\ post_summary = FALSE /\ idx = 0
    /\ outcomes = <<>> /\ all_comments = <<>> /\ comments = <<>> /\ handed = <<>>
    /\ results = NewRunResults /\ provider_calls = <<>> /\ summary_gen = NoCall
    /\ summary_posts = <<>> /\ cause = ""

\* file_contents[i] is the entry of file_diffs[i].path: "absent" when the
\* dictionary has no such key, "empty" for "", "text" otherwise.  The
\* environment and the arguments are fixed here and set when they are read;
\* file_diffs and file_contents are what get_reviewable_files returns when it
\* returns.
RunInit ==
    /\ pc = "main"
    /\ \E n \in 0..MaxFiles :
         /\ file_diffs = [i \in 1..n |-> FileDiff(RunPaths[i], "edit")]
         /\ file_contents \in [1..n -> {"absent", "empty", "text"}]
    /\ max_issues = 0 /\ dry_run = FALSE /\ post_comments = FALSE
    /\ post_summary = FALSE /\ idx = 0 /\ outcomes = <<>> /\ all_comments = <<>>
    /\ comments = <<>> /\ handed = <<>> /\ results = NewRunResults
    /\ provider_calls = <<>> /\ summary_gen = NoCall /\ summary_posts = <<>>
    /\ cause = ""

runInputs == <<file_diffs, file_contents>>

\* what the steps of main before the review leave alone
reviewState == <<max_issues, dry_run, post_comments, post_summary, idx, outcomes,
                 all_comments, comments, handed, results, provider_calls,
                 summary_gen, summary_posts>>

\* main: "except Exception as e: ... sys.exit(1)", and the two explicit
\* sys.exit(1); cause is the failure that ended the run
Exit1(why) == pc' = "exit1" /\ cause' = why

\* main: load_configuration(args.config), which re-raises what loading raised
LoadConfiguration ==
    /\ pc = "main"
    /\ \E loaded \in BOOLEAN :
         IF loaded THEN pc' = "configured" /\ cause' = cause
         ELSE Exit1("configuration")
    /\ UNCHANGED <<runInputs, reviewState>>

\* main: AzureDevOpsClient(config.azure_devops), LLMReviewClient(config.llm);
\* LLMProviderFactory.create and the provider's constructor raise ValueError
\* on an unregistered provider or a missing key
InitializeClients ==
    /\ pc = "configured"
    /\ \E created \in BOOLEAN :
         IF created THEN pc' = "clients" /\ cause' = cause
         ELSE Exit1("configuration")
    /\ UNCHANGED <<runInputs, reviewState>>

\* main: "if not test_connections(ado_client, llm_client): sys.exit(1)"
TestConnections ==
    /\ pc = "clients"
    /\ \E connected \in BOOLEAN :
         IF connected THEN pc' = "connected" /\ cause' = cause
         ELSE Exit1("connectivity")
    /\ UNCHANGED <<runInputs, reviewState>>

\* main: pr = ado_client.get_pull_request(args.pr_id); "if not pr: sys.exit(1)"
FetchPullRequest ==
    /\ pc = "connected"
    /\ \E sent \in {[attempts |-> 1, out |-> "response", code |-> 200],
                    [attempts |-> 1, out |-> "HTTPError", code |-> 404],
                    [attempts |-> 4, out |-> "ConnectionError", code |-> 0]} :
         LET r == get_pull_request(sent)
         IN  IF r.raised THEN Exit1("pull_request_fetch")
             ELSE IF r.ret = "None" THEN Exit1("not_found")
             ELSE pc' = "pr" /\ cause' = cause
    /\ UNCHANGED <<runInputs, reviewState>>

\* main: get_reviewable_files, whose get_pull_request_changes re-raises every
\* RequestException of its two requests
GetReviewableFiles ==
    /\ pc = "pr"
    /\ \E sent \in {"response", "ConnectionError"} :
         IF sent \in RequestExceptions THEN Exit1("changes_fetch")
         ELSE pc' = "start" /\ cause' = cause
    /\ UNCHANGED <<runInputs, reviewState>>

\* main: "if not file_contents: ... sys.exit(0)"
NoFilesExit ==
    /\ pc = "start"
    /\ \A i \in 1..Len(file_diffs) : file_contents[i] = "absent"
    /\ pc' = "exit0"
    /\ UNCHANGED <<runInputs, reviewState, cause>>

\* perform_review up to the call of review_pull_request
BeginReview ==
    /\ pc = "start"
    /\ \E i \in 1..Len(file_diffs) : file_contents[i] # "absent"
    /\ pc' = "review" /\ idx' = 1 /\ all_comments' = <<>>
    /\ UNCHANGED <<runInputs, max_issues, dry_run, post_comments, post_summary,
                   outcomes, comments, handed, results, provider_calls,
                   summary_gen, summary_posts, cause>>

\* "if not file_content" taking only a missing entry for no content
HasContent_KeyPresent(content) == content # "absent"

\* the negation of "if not file_content": the entry is a non-empty string
HasContent(content) == content = "text"

\* review_pull_request: "if not file_content: ... continue"
ReviewSkip ==
    /\ pc = "review" /\ idx <= Len(file_diffs)
    /\ ~HasContent(file_contents[idx])
    /\ outcomes' = Append(outcomes, [k |-> "skipped"])
    /\ idx' = idx + 1
    /\ UNCHANGED <<pc, runInputs, max_issues, dry_run, post_comments, post_summary,
                   all_comments, comments, handed, results, provider_calls,
                   summary_gen, summary_posts, cause>>

\* review_file up to self.provider.generate_completion(...): the blocking
\* call for file idx is issued
ReviewCall ==
    /\ pc = "review" /\ idx <= Len(file_diffs)
    /\ HasContent(file_contents[idx])
    /\ provider_calls' = Append(provider_calls,
                                [purpose |-> "review", path |-> file_diffs[idx].path])
    /\ pc' = "calling"
    /\ UNCHANGED <<runInputs, max_issues, dry_run, post_comments, post_summary, idx,
                   outcomes, all_comments, comments, handed, results, summary_gen,
                   summary_posts, cause>>

\* review_pull_request: the call ended, the reply is parsed and validated,
\* all_comments.extend(comments)
ReviewFile ==
    /\ pc = "calling"
    /\ \E outcome \in ProviderOutcomes :
         LET r == review_file(file_diffs[idx].path, outcome)
         IN  /\ outcomes' = Append(outcomes, outcome)
             /\ pc' = IF r.raised THEN "crashed" ELSE "review"
             /\ all_comments' = IF r.raised THEN all_comments ELSE all_comments \o r.out
    /\ idx' = idx + 1
    /\ UNCHANGED <<runInputs, max_issues, dry_run, post_comments, post_summary,
                   comments, handed, results, provider_calls, summary_gen,
                   summary_posts, cause>>

\* perform_review after review_pull_request returned: the per-file cap with
\* the value of MAX_ISSUES_PER_FILE
PerformReviewCap ==
    /\ pc = "review" /\ idx > Len(file_diffs)
    /\ \E n \in (0..MaxCap) \cup {DefaultMaxIssues} :
         /\ max_issues' = n
         /\ comments' = CapPerFile(all_comments, n)
    /\ pc' = "reviewed"
    /\ UNCHANGED <<runInputs, dry_run, post_comments, post_summary, idx, outcomes,
                   all_comments, handed, results, provider_calls, summary_gen,
                   summary_posts, cause>>

\* main: "if comments: ... else: results = {...}"
NoIssues ==
    /\ pc = "reviewed" /\ comments = <<>>
    /\ results' = NewRunResults
    /\ pc' = "done"
    /\ UNCHANGED <<runInputs, max_issues, dry_run, post_comments, post_summary, idx,
                   outcomes, all_comments, comments, handed, provider_calls,
                   summary_gen, summary_posts, cause>>

\* post_results going on to post whatever --dry-run says
SkipsPosting_Never(dry) == FALSE

\* post_results: "if dry_run: ... return results"
SkipsPosting(dry) == dry

\* post_results with --dry-run, POST_COMMENTS and POST_SUMMARY being read
\* before the test
PostResultsDryRun ==
    /\ pc = "reviewed" /\ comments # <<>>
    /\ SkipsPosting(TRUE)
    /\ dry_run' = TRUE
    /\ post_comments' \in BOOLEAN /\ post_summary' \in BOOLEAN
    /\ results' = NewRunResults
    /\ pc' = "done"
    /\ UNCHANGED <<runInputs, max_issues, idx, outcomes, all_comments, comments,
                   handed, provider_calls, summary_gen, summary_posts, cause>>

\* result.get('posted', 0) on the dictionary post_review_comments returns
GetPosted(res) == IF "posted" \in DOMAIN res THEN res.posted ELSE 0

\* post_results storing the count of the dictionary post_review_comments
\* returned: "results['comments_posted'] = result.get('posted', 0)"
ReportPosted ==
    /\ c_pc = "returned"
    /\ comments_posted' = GetPosted(c_results)
    /\ c_pc' = "reported"
    /\ UNCHANGED <<c_comments, c_i, c_results, c_attempts>>

\* post_results, "# Post comments"
PostResultsComments ==
    /\ pc = "reviewed" /\ comments # <<>>
    /\ \E dry \in BOOLEAN : ~SkipsPosting(dry) /\ dry_run' = dry
    /\ \E flag \in BOOLEAN :
         /\ post_comments' = flag
         /\ IF flag
            THEN \E outs \in [1..Len(comments) -> ThreadOutcomes] :
                   LET r == post_review_comments(comments, outs)
                   IN  /\ handed' = Append(handed, comments)
                       /\ results' = IF r.raised THEN NewRunResults
                                     ELSE [NewRunResults EXCEPT
                                             !.comments_posted = GetPosted(r.res)]
            ELSE /\ handed' = handed
                 /\ results' = NewRunResults
    /\ pc' = "summary"
    /\ UNCHANGED <<runInputs, max_issues, post_summary, idx, outcomes, all_comments,
                   comments, provider_calls, summary_gen, summary_posts, cause>>

\* ResponseParser.parse_summary_response: the fenced blocks are removed
parse_summary_response(text) == SelectSeq(text, LAMBDA sg : sg.k # "fence")

\* the text generate_summary returns when its try block raised
FailureSummary == <<[k |-> "literal", s |-> "Failed to generate review summary."]>>

\* LLMReviewClient.generate_summary, the provider call having ended in outcome
generate_summary(outcome) ==
    IF outcome.k = "raise" THEN FailureSummary
    ELSE parse_summary_response(outcome.text)

\* how the provider call made for the summary ends
SummaryOutcomes == {Raise, Reply(<<Prose, Fence("", ArrayText(<<>>)), Prose>>)}

\* post_results handing the comments to post_review_comments once more after
\* the summary was generated and posted
PostResultsSummary_ThenComments ==
    /\ pc = "summary"
    /\ post_summary' = TRUE
    /\ provider_calls' = Append(provider_calls, [purpose |-> "summary", path |-> <<>>])
    /\ summary_gen' = Raise
    /\ summary_posts' = Append(summary_posts,
                               [text |-> generate_summary(Raise), outcome |-> "ok"])
    /\ results' = [results EXCEPT !.summary_posted = TRUE]
    /\ handed' = Append(handed, comments)
    /\ pc' = "done"
    /\ UNCHANGED <<runInputs, max_issues, dry_run, post_comments, idx, outcomes,
                   all_comments, comments, cause>>

\* post_results, "# Generate and post summary": post_summary_comment returns
\* the created thread or raises
PostResultsSummary ==
    /\ pc = "summary"
    /\ \E flag \in BOOLEAN :
         /\ post_summary' = flag
         /\ IF flag
            THEN \E outcome \in SummaryOutcomes, posted \in {"ok", "RequestException"} :
                   /\ provider_calls' = Append(provider_calls,
                                               [purpose |-> "summary", path |-> <<>>])
                   /\ summary_gen' = outcome
                   /\ summary_posts' = Append(summary_posts,
                                              [text |-> generate_summary(outcome),
                                               outcome |-> posted])
                   /\ results' = [results EXCEPT !.summary_posted = (posted = "ok")]
            ELSE UNCHANGED <<results, provider_calls, summary_gen, summary_posts>>
    /\ pc' = "done"
    /\ UNCHANGED <<runInputs, max_issues, dry_run, post_comments, idx, outcomes,
                   all_comments, comments, handed, cause>>


(***************************************************************************)
(* get_session called from several threads on one AzureDevOpsAuth.  The    *)
(* interpreter may switch threads between any two steps of the method: the *)
(* test of self._session, the construction of the session object, the      *)
(* computation of its header, the assignment and the return are separate   *)
(* steps of a thread.                                                      *)
(***************************************************************************)
Threads == 1..MaxThreads

RaceIdle == t_pc = <<>> /\ t_new = <<>> /\ t_got = <<>>

\* AzureDevOpsAuth(config), every thread about to call get_session
RaceInit ==
    /\ a_pc = "threads" /\ pat_token \in BOOLEAN /\ a_session = 0 /\ a_objects = <<>>
    /\ a_returned = {} /\ a_last = NoOperation
    /\ t_pc = [t \in Threads |-> "call"]
    /\ t_new = [t \in Threads |-> 0]
    /\ t_got = [t \in Threads |-> 0]

\* get_session: "if self._session is None"
TestSession(t) ==
    /\ t_pc[t] = "call"
    /\ t_pc' = [t_pc EXCEPT ![t] = IF a_session = 0 THEN "construct" ELSE "return"]
    /\ UNCHANGED <<a_pc, pat_token, a_session, a_objects, a_returned, a_last,
                   t_new, t_got>>

\* _create_session: "session = requests.Session()"
ConstructSession(t) ==
    /\ t_pc[t] = "construct"
    /\ a_objects' = Append(a_objects, NewSession)
    /\ t_new' = [t_new EXCEPT ![t] = Len(a_objects) + 1]
    /\ t_pc' = [t_pc EXCEPT ![t] = "header"]
    /\ UNCHANGED <<a_pc, pat_token, a_session, a_returned, a_last, t_got>>

\* _create_session: the header is computed and set, the session returned;
\* without a PAT token ValueError leaves get_session
SetHeader(t) ==
    /\ t_pc[t] = "header"
    /\ LET h == create_auth_header(pat_token)
       IN  IF h.raised
           THEN /\ t_pc' = [t_pc EXCEPT ![t] = "raised"]
                /\ a_objects' = a_objects
           ELSE /\ t_pc' = [t_pc EXCEPT ![t] = "assign"]
                /\ a_objects' = [a_objects EXCEPT ![t_new[t]].authorization = h.header]
    /\ UNCHANGED <<a_pc, pat_token, a_session, a_returned, a_last, t_new, t_got>>

\* get_session: "self._session = ..."
AssignSession(t) ==
    /\ t_pc[t] = "assign"
    /\ a_session' = t_new[t]
    /\ t_pc' = [t_pc EXCEPT ![t] = "return"]
    /\ UNCHANGED <<a_pc, pat_token, a_objects, a_returned, a_last, t_new, t_got>>

\* get_session: "return self._session"
ReturnSession(t) ==
    /\ t_pc[t] = "return"
    /\ t_got' = [t_got EXCEPT ![t] = a_session]
    /\ a_returned' = a_returned \cup {[by |-> t, id |-> a_session]}
    /\ t_pc' = [t_pc EXCEPT ![t] = "done"]
    /\ UNCHANGED <<a_pc, pat_token, a_session, a_objects, a_last, t_new>>


(***************************************************************************)
(* LLMProvider.optimize_prompt and the token estimators of the backends.   *)
(* A prompt is a text (runs); class "d" stands for characters the          *)
(* tokenizer encodes as one token each, every other run for ordinary text  *)
(* that takes one token per CharsPerToken characters.                      *)
(***************************************************************************)
CharsPerToken == 4

\* len(self.encoding.encode(text)) of the tiktoken-backed providers
RECURSIVE encode_len(_)
encode_len(text) ==
    IF text = <<>> THEN 0
    ELSE (IF Head(text).c = "d" THEN Head(text).n
          ELSE (Head(text).n + CharsPerToken - 1) \div CharsPerToken)
         + encode_len(Tail(text))

\* count_tokens of a provider: "chars" for AnthropicProvider, OllamaProvider
\* and the tokenizer-less fallback, "tiktoken" for the OpenAI providers
count_tokens(est, text) ==
    IF est = "chars" THEN TLen(text) \div CharsPerToken
    ELSE encode_len(text)

\* "\n\n[Content truncated...]"
TruncationMarker == <<[c |-> "n", n |-> 2], [c |-> "m", n |-> 22]>>

\* "if max_length is None: max_length = self.max_tokens // 2"
LimitOf(limit, tokens) == IF limit = <<>> THEN tokens \div 2 ELSE limit[1]

\* LLMProvider.optimize_prompt(prompt, max_length) of a provider configured
\* with max_tokens = tokens
optimize_prompt(est, text, limit, tokens) ==
    LET lim == LimitOf(limit, tokens)
        target_chars == lim * CharsPerToken
    IN  IF count_tokens(est, text) <= lim THEN text
        ELSE IF TLen(text) > target_chars
             THEN TCat(TTake(text, target_chars), TruncationMarker)
        ELSE text

\* prompts of up to two runs, around the character budgets of the limits
PromptLengths == 0..(CharsPerToken * MaxLimit + CharsPerToken + 1)
Prompts ==
    {Run(c, n) : c \in {"x", "d"}, n \in PromptLengths}
    \cup {TCat(Run("d", n), Run("x", CharsPerToken * MaxLimit)) : n \in 1..MaxLimit}

PromptIdle ==
    /\ q_pc = "idle" /\ prompt = <<>> /\ max_length = <<>> /\ max_tokens = 0
    /\ estimator = "" /\ optimized = <<>> /\ reoptimized = <<>>

\* a provider and the arguments of an optimize_prompt call
PromptInit ==
    /\ q_pc = "call"
    /\ prompt \in Prompts
    /\ max_length \in {<<>>} \cup {<<n>> : n \in 0..MaxLimit}
    /\ max_tokens \in {2 * MaxLimit, 2 * MaxLimit + 1}
    /\ estimator \in {"chars", "tiktoken"}
    /\ optimized = <<>> /\ reoptimized = <<>>

\* provider.optimize_prompt(prompt, max_length)
OptimizePrompt ==
    /\ q_pc = "call"
    /\ optimized' = optimize_prompt(estimator, prompt, max_length, max_tokens)
    /\ q_pc' = "optimized"
    /\ UNCHANGED <<prompt, max_length, max_tokens, estimator, reoptimized>>

\* provider.optimize_prompt applied to its own result
OptimizeAgain ==
    /\ q_pc = "optimized"
    /\ reoptimized' = optimize_prompt(estimator, optimized, max_length, max_tokens)
    /\ q_pc' = "again"
    /\ UNCHANGED <<prompt, max_length, max_tokens, estimator, optimized>>


(***************************************************************************)
(* OpenAIProvider: the client timeout chosen by the constructor and the    *)
(* parameters of a chat completion request.  A model name is the sequence  *)
(* of its characters.                                                      *)
(***************************************************************************)
gpt == <<"g", "p", "t", "-">>
gpt_5 == gpt \o <<"5">>
gpt_5_mini == gpt_5 \o <<"-", "m", "i", "n", "i">>
o1 == <<"o", "1">>
o1_mini == o1 \o <<"-", "m", "i", "n", "i">>
o1_preview == o1 \o <<"-", "p", "r", "e", "v", "i", "e", "w">>

\* str.startswith
startswith(s, prefix) == Len(prefix) <= Len(s) /\ SubSeq(s, 1, Len(prefix)) = prefix

\* "any(name.startswith(model) for model in models)"
AnyPrefix(name, models) == \E i \in 1..Len(models) : startswith(name, models[i])

\* __init__: reasoning_models and is_reasoning
is_reasoning(name) == AnyPrefix(name, <<gpt_5, gpt_5_mini, o1_preview, o1_mini, o1>>)

\* _is_reasoning_model knowing the gpt-5 family only
is_reasoning_model_GPT5Only(name) == AnyPrefix(name, <<gpt_5>>)

\* _is_reasoning_model
is_reasoning_model(name) == AnyPrefix(name, <<gpt_5, o1_preview, o1_mini, o1>>)

DefaultTimeout == 500
ExtendedTimeout == 600

\* __init__: effective_timeout, the timeout the OpenAI client is built with
effective_timeout(name, configured) ==
    IF is_reasoning(name)
    THEN (IF configured > ExtendedTimeout THEN configured ELSE ExtendedTimeout)
    ELSE configured

\* generate_completion: the params dictionary.  temperature and max_tokens
\* come from kwargs, else from the provider's configuration
request_params(name, kwargs) ==
    LET sampling == IF is_reasoning_model(name) THEN {}
                    ELSE {"temperature", "max_tokens"}
        keys == {"model", "messages"} \cup sampling
                \cup ({"response_format"} \cap DOMAIN kwargs)
    IN  [k \in keys |->
           IF k = "model" THEN name
           ELSE IF k = "messages" THEN <<"messages">>
           ELSE IF k \in DOMAIN kwargs THEN <<"kwargs", k>>
           ELSE <<"self", k>>]

\* the model names of the runs: the listed prefixes, longer names of the
\* families, names of other families and names that are prefixes of a prefix
Models ==
    {gpt_5, gpt_5_mini, gpt_5 \o <<".", "1">>, gpt_5 \o <<"0">>, o1, o1_mini,
     o1_preview, o1 \o <<"0">>, <<"o">>, <<"o", "3">>, gpt \o <<"4">>,
     gpt \o <<"4", "o">>, gpt, <<>>}

Timeouts == {DefaultTimeout, ExtendedTimeout, ExtendedTimeout + 1}

Kwargs ==
    UNION {[K -> {"given"}] : K \in SUBSET {"temperature", "max_tokens", "response_format"}}

ProviderIdle ==
    /\ m_pc = "idle" /\ model = <<>> /\ timeout = 0 /\ api_key = FALSE
    /\ client_timeout = 0 /\ params = <<>>

\* an LLMConfig for the hosted chat provider
ProviderInit ==
    /\ m_pc = "config"
    /\ model \in Models /\ timeout \in Timeouts /\ api_key \in BOOLEAN
    /\ client_timeout = 0 /\ params = <<>>

\* OpenAIProvider(config): ValueError without an API key, else the client is
\* built with the effective timeout
ProviderConstruct ==
    /\ m_pc = "config"
    /\ IF ~api_key
       THEN m_pc' = "raised" /\ client_timeout' = client_timeout
       ELSE m_pc' = "ready" /\ client_timeout' = effective_timeout(model, timeout)
    /\ UNCHANGED <<model, timeout, api_key, params>>

\* provider.generate_completion(prompt, system_message, **kwargs) up to the
\* call of client.chat.completions.create(**params)
GenerateCompletion ==
    /\ m_pc = "ready"
    /\ \E kwargs \in Kwargs : params' = request_params(model, kwargs)
    /\ m_pc' = "requested"
    /\ UNCHANGED <<model, timeout, api_key, client_timeout>>

(***************************************************************************)
(* Specifications.                                                         *)
(***************************************************************************)
notRun ==
    UNCHANGED <<parserVars, selectorVars, postingVars, authVars, factoryVars,
                raceVars, promptVars, providerVars>>

Init == ParserIdle /\ SelectorIdle /\ PostingIdle /\ RunInit /\ AuthIdle /\ FactoryIdle
    /\ RaceIdle /\ PromptIdle /\ ProviderIdle

Next ==
    \/ (LoadConfiguration /\ notRun)
    \/ (InitializeClients /\ notRun)
    \/ (TestConnections /\ notRun)
    \/ (FetchPullRequest /\ notRun)
    \/ (GetReviewableFiles /\ notRun)
    \/ (NoFilesExit /\ notRun)
    \/ (BeginReview /\ notRun)
    \/ (ReviewSkip /\ notRun)
    \/ (ReviewCall /\ notRun)
    \/ (ReviewFile /\ notRun)
    \/ (PerformReviewCap /\ notRun)
    \/ (NoIssues /\ notRun)
    \/ (PostResultsDryRun /\ notRun)
    \/ (PostResultsComments /\ notRun)
    \/ (PostResultsSummary /\ notRun)

Spec == Init /\ [][Next]_vars

ParserSpecInit ==
    ParserInit /\ SelectorIdle /\ PostingIdle /\ RunIdle /\ AuthIdle /\ FactoryIdle
    /\ RaceIdle /\ PromptIdle /\ ProviderIdle

notParser ==
    UNCHANGED <<selectorVars, postingVars, runVars, authVars, factoryVars,
                raceVars, promptVars, providerVars>>

ParserNext ==
    \/ (ParseReviewResponse /\ notParser)
    \/ (ValidateComments /\ notParser)

ParserSpec == ParserSpecInit /\ [][ParserNext]_vars

SelectorSpecInit ==
    ParserIdle /\ SelectorInit /\ PostingIdle /\ RunIdle /\ AuthIdle /\ FactoryIdle
    /\ RaceIdle /\ PromptIdle /\ ProviderIdle

notSelector ==
    UNCHANGED <<parserVars, postingVars, runVars, authVars, factoryVars,
                raceVars, promptVars, providerVars>>

SelectorNext ==
    \/ (FilterReviewableFiles /\ notSelector)
    \/ (SelectForReview /\ notSelector)

SelectorSpec == SelectorSpecInit /\ [][SelectorNext]_vars

PostingSpecInit ==
    ParserIdle /\ SelectorIdle /\ PostingInit /\ RunIdle /\ AuthIdle /\ FactoryIdle
    /\ RaceIdle /\ PromptIdle /\ ProviderIdle

notPosting ==
    UNCHANGED <<parserVars, selectorVars, runVars, authVars, factoryVars,
                raceVars, promptVars, providerVars>>

PostingNext ==
    \/ (PostEnter /\ notPosting)
    \/ (PostComment /\ notPosting)
    \/ (PostReturn /\ notPosting)
    \/ (ReportPosted /\ notPosting)

PostingSpec == PostingSpecInit /\ [][PostingNext]_vars

AuthSpecInit ==
    ParserIdle /\ SelectorIdle /\ PostingIdle /\ RunIdle /\ AuthInit /\ FactoryIdle
    /\ RaceIdle /\ PromptIdle /\ ProviderIdle

notAuth ==
    UNCHANGED <<parserVars, selectorVars, postingVars, runVars, factoryVars,
                raceVars, promptVars, providerVars>>

AuthNext ==
    \/ (GetSession /\ notAuth)
    \/ (Close /\ notAuth)
    \/ (TestConnection /\ notAuth)
    \/ (GetPullRequest /\ notAuth)
    \/ (ClientRequest /\ notAuth)

AuthSpec == AuthSpecInit /\ [][AuthNext]_vars

FactorySpecInit ==
    ParserIdle /\ SelectorIdle /\ PostingIdle /\ RunIdle /\ AuthIdle /\ FactoryInit
    /\ RaceIdle /\ PromptIdle /\ ProviderIdle

notFactory ==
    UNCHANGED <<parserVars, selectorVars, postingVars, runVars, authVars,
                raceVars, promptVars, providerVars>>

FactoryNext ==
    \/ (Register /\ notFactory)
    \/ (Create /\ notFactory)

FactorySpec == FactorySpecInit /\ [][FactoryNext]_vars


RaceSpecInit ==
    ParserIdle /\ SelectorIdle /\ PostingIdle /\ RunIdle /\ RaceInit /\ FactoryIdle
    /\ PromptIdle /\ ProviderIdle

notRace ==
    UNCHANGED <<parserVars, selectorVars, postingVars, runVars, factoryVars,
                promptVars, providerVars>>

RaceNext ==
    \/ \E t \in Threads : TestSession(t) /\ notRace
    \/ \E t \in Threads : ConstructSession(t) /\ notRace
    \/ \E t \in Threads : SetHeader(t) /\ notRace
    \/ \E t \in Threads : AssignSession(t) /\ notRace
    \/ \E t \in Threads : ReturnSession(t) /\ notRace

RaceSpec == RaceSpecInit /\ [][RaceNext]_vars

PromptSpecInit ==
    ParserIdle /\ SelectorIdle /\ PostingIdle /\ RunIdle /\ AuthIdle /\ FactoryIdle
    /\ RaceIdle /\ PromptInit /\ ProviderIdle

notPrompt ==
    UNCHANGED <<parserVars, selectorVars, postingVars, runVars, authVars, factoryVars,
                raceVars, providerVars>>

PromptNext ==
    \/ (OptimizePrompt /\ notPrompt)
    \/ (OptimizeAgain /\ notPrompt)

PromptSpec == PromptSpecInit /\ [][PromptNext]_vars

ProviderSpecInit ==
    ParserIdle /\ SelectorIdle /\ PostingIdle /\ RunIdle /\ AuthIdle /\ FactoryIdle
    /\ RaceIdle /\ PromptIdle /\ ProviderInit

notProvider ==
    UNCHANGED <<parserVars, selectorVars, postingVars, runVars, authVars, factoryVars,
                raceVars, promptVars>>

ProviderNext ==
    \/ (ProviderConstruct /\ notProvider)
    \/ (GenerateCompletion /\ notProvider)

ProviderSpec == ProviderSpecInit /\ [][ProviderNext]_vars

(***************************************************************************)
(* Claims about the review run (Spec).                                     *)
(***************************************************************************)
Range(seq) == {seq[i] : i \in 1..Len(seq)}

Count(x, seq) == Cardinality({i \in 1..Len(seq) : seq[i] = x})

AllHaveContent == \A i \in 1..Len(file_diffs) : file_contents[i] = "text"

\* what file i adds to the result once its provider call has ended: nothing
\* when the call raised, else the comments validation returned for its reply
\* (none when validation itself did not return)
C1_Contribution(i) ==
    IF outcomes[i].k # "reply" THEN <<>>
    ELSE validate_comments(
             parse_review_response(outcomes[i].text, file_diffs[i].path).out).out

C3_Rank(severity) ==
    CASE severity = "critical" -> 0
      [] severity = "major" -> 1
      [] severity = "minor" -> 2
      [] OTHER -> 3

\* C3: after the cap N > 0 no dropped comment of a file is strictly more
\* severe (critical < major < minor < suggestion) than a retained comment of
\* the same file, and each file keeps at most N comments.
C3_CapKeepsMostSevere ==
    (pc = "reviewed" /\ max_issues > 0) =>
        /\ \A d \in Range(all_comments) : \A k \in Range(comments) :
             (Count(d, comments) < Count(d, all_comments) /\ d.file_path = k.file_path)
                 => ~(C3_Rank(d.severity) < C3_Rank(k.severity))
        /\ \A i \in 1..Len(file_diffs) :
             Len(SelectSeq(comments, LAMBDA c : c.file_path = file_diffs[i].path))
                 <= max_issues

\* the line numbers a reply's array gives, under either spelling
C10_Lines(text) ==
    LET cand == extract_json(text)
    IN  IF cand = NoMatch \/ cand.p # "array" THEN {}
        ELSE {IntOf(PyOr(Get(it.d, "line_number"), Get(it.d, "line"))).n :
                it \in {x \in Range(cand.items) :
                          /\ x.t = "dict"
                          /\ PyOr(Get(x.d, "line_number"), Get(x.d, "line")) # JNull
                          /\ IntOf(PyOr(Get(x.d, "line_number"), Get(x.d, "line"))).ok}}

C2_PostingTolerant ==
    /\ c_pc # "raised"
    /\ c_pc = "posting" =>
         /\ c_attempts = SubSeq(c_comments, 1, c_i - 1)
         /\ c_results.success + c_results.failed = c_i - 1
    /\ c_pc = "returned" =>
         /\ c_attempts = c_comments
         /\ c_results.total = Len(c_comments)
         /\ c_results.success + c_results.failed = c_results.total
         /\ Len(c_results.errors) = c_results.failed

\* three comments posted, the second one failed and the third was still
\* attempted
C2_Witness ==
    /\ c_pc = "returned" /\ Len(c_comments) = 3 /\ Len(c_attempts) = 3
    /\ c_results.success = 2 /\ c_results.failed = 1
    /\ c_comments[2].line_number # c_comments[1].line_number
    /\ c_comments[2].line_number # c_comments[3].line_number
    /\ c_results.errors[1].line_number = c_comments[2].line_number


\* C29: after a posting step that is not a dry run, the comments_posted
\* value post_results reports is the number of comments that
\* post_review_comments posted successfully, its "success" count.
C29_ReportsSuccessCount ==
    c_pc = "reported" => comments_posted = c_results.success

(***************************************************************************)
(* Claims about the change selector (SelectorSpec).                        *)
(***************************************************************************)
Min(a, b) == IF a < b THEN a ELSE b

C5_HasBinaryExtension(path) ==
    \E ext \in binary_extensions :
        /\ Len(path) >= Len(ext)
        /\ \A j \in 1..Len(ext) :
             LowerToken(path[Len(path) - Len(ext) + j]) = ext[j]

\* the four rules of the selector, for one record
C5_Eligible(f) ==
    /\ ~C5_HasBinaryExtension(f.path)
    /\ f.change_type # "delete"
    /\ (Len(allowed_extensions) > 0 =>
          \E i \in 1..Len(allowed_extensions) : EndsWith(f.path, allowed_extensions[i]))
    /\ (Len(exclude_patterns) > 0 =>
          \A i \in 1..Len(exclude_patterns) : ~fnmatch(f.path, exclude_patterns[i]))

\* C4: for max_files = N >= 0 the selector returns the first
\* min(N, eligible_count) eligible records, in input order.
C4_PrefixOfEligible ==
    s_pc = "filtered" =>
        LET eligible == SelectSeq(file_changes, C5_Eligible)
        IN  /\ Len(s_result) = Min(max_files, Len(eligible))
            /\ s_result = SubSeq(eligible, 1, Min(max_files, Len(eligible)))

\* more eligible records than max_files, and max_files of them returned
C4_Witness ==
    /\ s_pc = "filtered" /\ max_files = 2
    /\ Len(SelectSeq(file_changes, C5_Eligible)) = 3
    /\ Len(s_result) = 2
    /\ s_result[1] = file_changes[1] /\ s_result[2] = file_changes[2]
    /\ s_result[1] # s_result[2]

\* C5: a record is in the list before truncation if and only if it has no
\* binary extension, is not a delete, ends with an allowed extension when an
\* allow-list is configured and matches no exclude pattern when any is
\* configured; no binary or deleted record is ever returned.
C5_EligibleIffRules ==
    s_pc = "filtered" =>
        /\ reviewable = SelectSeq(file_changes, C5_Eligible)
        /\ \A i \in 1..Len(s_result) :
             /\ ~C5_HasBinaryExtension(s_result[i].path)
             /\ s_result[i].change_type # "delete"

\* an upper-case binary path whose extension is on the allow-list and a
\* deleted file are both left out while another record is returned
C5_Witness ==
    /\ s_pc = "filtered"
    /\ \E i \in 1..Len(file_changes) :
         /\ file_changes[i].path = <<"img", ".", "PNG">>
         /\ \E j \in 1..Len(allowed_extensions) :
              EndsWith(file_changes[i].path, allowed_extensions[j])
    /\ \E i \in 1..Len(file_changes) : file_changes[i].change_type = "delete"
    /\ Len(reviewable) = 1 /\ Len(s_result) = 1 /\ Len(file_changes) = 3

\* C28: the selection step of a review run applies the selector with the
\* configured review.max_files_per_review, so the files handed to the
\* per-file review are never more than that maximum.
C28_ConfiguredMaximum ==
    s_pc = "selected" => Len(s_result) <= max_files

(***************************************************************************)
(* Claims about the parser and the validator (ParserSpec).                 *)
(***************************************************************************)
\* the array the reply's extracted candidate decodes to, <<>> when none
DecodedItems ==
    LET cand == extract_json(response_text)
    IN  IF cand # NoMatch /\ cand.p = "array" THEN cand.items ELSE <<>>

\* the line number of an item: the value under "line_number", else the one
\* under "line"; null and the integer 0 count as no value
C6_Line(d) ==
    IF "line_number" \in DOMAIN d /\ d.line_number \notin {JNull, JInt(0)}
    THEN d.line_number
    ELSE IF "line" \in DOMAIN d /\ d.line # JInt(0) THEN d.line ELSE JNull

\* the body of an item: the first non-empty value among the three spellings
C6_Body(d) ==
    IF Truthy(Get(d, "content")) THEN d.content
    ELSE IF Truthy(Get(d, "description")) THEN d.description
    ELSE Get(d, "message")

C6_HasBody(d) == Truthy(C6_Body(d))

\* the item has a line number int() accepts and a non-empty body
C6_Qualifies(item) ==
    /\ item.t = "dict"
    /\ C6_Line(item.d) # JNull /\ IntOf(C6_Line(item.d)).ok
    /\ C6_HasBody(item.d)

C6_Severity(d) ==
    IF "severity" \notin DOMAIN d THEN "suggestion"
    ELSE IF d.severity.t = "str" /\ Lower(d.severity.s) \in valid_severities
         THEN Lower(d.severity.s) ELSE "suggestion"

C6_Category(d) ==
    IF "category" \notin DOMAIN d THEN "code_quality"
    ELSE IF d.category.t = "str" /\ Lower(d.category.s) \in valid_categories
         THEN Lower(d.category.s) ELSE "code_quality"

\* C6: every item of the array with a coercible line number and a non-empty
\* body yields a comment whatever its severity and category are, an unknown
\* severity becoming suggestion and an unknown category code_quality.
C6_NeverRejectedForSeverity ==
    p_pc = "parsed" =>
        LET good == SelectSeq(DecodedItems, C6_Qualifies)
        IN  /\ Len(p_comments) = Len(good)
            /\ \A i \in 1..Len(good) :
                 /\ p_comments[i].severity = C6_Severity(good[i].d)
                 /\ p_comments[i].category = C6_Category(good[i].d)

\* b is a subsequence of a
RECURSIVE IsSubseq(_, _)
IsSubseq(b, a) ==
    IF b = <<>> THEN TRUE
    ELSE IF a = <<>> THEN FALSE
    ELSE IF Head(a) = Head(b) THEN IsSubseq(Tail(b), Tail(a))
    ELSE IsSubseq(b, Tail(a))

\* the element is skipped for one of the four reasons: not an object, no line
\* number under either spelling, no body under any spelling, a line number
\* int() rejects
C7_Skipped(item) ==
    \/ item.t # "dict"
    \/ C6_Line(item.d) = JNull
    \/ ~Truthy(C6_Body(item.d))
    \/ ~IntOf(C6_Line(item.d)).ok

\* the element has a usable line number and body, and a severity and a
\* category that are strings or absent
C7_Sound(item) ==
    /\ ~C7_Skipped(item)
    /\ Truthy(C6_Line(item.d))
    /\ \A key \in {"severity", "category"} : key \in DOMAIN item.d => item.d[key].t = "str"

C7_Key(c) == <<c.file_path, c.line_number, c.content>>

C8_Blank(content) ==
    IF content.t = "text" THEN StripIsEmpty(content.r) ELSE ~Truthy(content)

C8_Valid(c) == c.line_number >= 1 /\ ~C8_Blank(c.content)

C8_Identity(c) == <<c.file_path, c.line_number, c.severity, c.category>>

\* C8: validate_comments never raises and returns, in input order, exactly
\* the input comments whose line number is >= 1 and whose body is neither
\* empty nor whitespace-only.
C8_ValidateFilters ==
    p_pc \in {"validated", "batch_validated"} =>
        LET kept == SelectSeq(p_comments, C8_Valid)
        IN  /\ ~p_valid.raised
            /\ Len(p_valid.out) = Len(kept)
            /\ \A i \in 1..Len(kept) :
                 C8_Identity(p_valid.out[i]) = C8_Identity(kept[i])

MarkerLength == 24

\* C9: whenever validate_comments returns, a retained body of at most Ceiling
\* characters is unchanged and a retained body of more than Ceiling
\* characters is its first Ceiling characters followed by the marker, of
\* length Ceiling + MarkerLength; the length never causes a drop.
C9_CeilingTruncation ==
    (p_pc \in {"validated", "batch_validated"} /\ ~p_valid.raised) =>
        LET kept == SelectSeq(p_comments, C8_Valid)
        IN  /\ Len(p_valid.out) = Len(kept)
            /\ \A i \in 1..Len(kept) :
                 LET before == kept[i].content.r
                     after == p_valid.out[i].content.r
                 IN  IF TLen(before) <= Ceiling
                     THEN after = before
                     ELSE /\ TLen(after) = Ceiling + MarkerLength
                          /\ TTake(after, Ceiling) = TTake(before, Ceiling)
                          /\ after = TCat(TTake(before, Ceiling), Marker)
                          /\ TLen(Marker) = MarkerLength

\* a body of exactly Ceiling characters kept as it is next to one of
\* Ceiling + 1 characters cut to Ceiling + MarkerLength
C9_Witness ==
    /\ p_pc = "batch_validated" /\ ~p_valid.raised
    /\ Len(p_comments) = 2 /\ Len(p_valid.out) = 2
    /\ TLen(p_comments[1].content.r) = Ceiling
    /\ p_valid.out[1].content = p_comments[1].content
    /\ TLen(p_comments[2].content.r) = Ceiling + 1
    /\ TLen(p_valid.out[2].content.r) = Ceiling + MarkerLength

\* the positions of the fenced blocks, untagged or tagged json, that hold a
\* bracket-delimited array
C26_Fenced ==
    {i \in 1..Len(response_text) :
        response_text[i].k = "fence" /\ response_text[i].tag \in {"json", ""}}

\* the positions of the bracket-delimited arrays of object-looking fragments
C26_ObjectArrays ==
    {i \in 1..Len(response_text) :
        response_text[i].k # "prose" /\ ObjectLooking(response_text[i].body)}

\* the trimmed reply starts with "[" and ends with "]"
C26_Bracketed ==
    /\ response_text # <<>>
    /\ response_text[1].k = "raw" /\ response_text[Len(response_text)].k = "raw"

C11_SessionOps == {"get_session", "test_connection", "get_pull_request", "request"}

\* C11: between two calls of close() every get_session call, whoever makes
\* it (a direct caller, test_connection, the PR client, the comment client),
\* returns the one stored session object; no session exists before the first
\* call, and no second session is constructed while one is stored.
C11_SessionReuse ==
    /\ \A r \in a_returned : r.id = a_session /\ a_session # 0
    /\ (a_last.op \in C11_SessionOps /\ a_last.out # "ValueError") => a_last.id = a_session
    /\ a_last.op = "none" => a_objects = <<>>
    /\ \A id \in 1..Len(a_objects) :
         (a_objects[id].authorization # "" /\ a_objects[id].closes = 0) => id = a_session

\* after a close, a second session was constructed lazily and then returned
\* to a direct caller, to test_connection and to both clients
C11_Witness ==
    /\ Len(a_objects) = 2 /\ a_session = 2 /\ a_objects[1].closes = 1
    /\ {r.by : r \in a_returned} = {"caller", "test_connection", "pr_client", "comment_client"}
    /\ \A r \in a_returned : r.id = 2

\* C12: close() leaves the handle unset; with a session stored it closes that
\* session exactly once, with none stored (before any session was created, or
\* after an earlier close, explicit or by context-manager exit) it changes
\* nothing; no session is ever closed twice.
C12_CloseIdempotent ==
    [][Close => /\ a_session' = 0
                /\ a_session = 0 => a_objects' = a_objects
                /\ a_session # 0 =>
                     /\ a_objects[a_session].closes = 0
                     /\ a_objects' = [a_objects EXCEPT ![a_session].closes = 1]]_vars

\* context-manager exit after an explicit close had closed the session: the
\* exit closed nothing and the session stays closed once
C12_Witness ==
    /\ a_last.op = "close" /\ a_last.by = "__exit__" /\ a_last.id = 0
    /\ Len(a_objects) = 1 /\ a_objects[1].closes = 1 /\ a_session = 0

\* C13: without a PAT token get_session raises ValueError, no request is
\* attempted and no session is stored, on the first call and on every later
\* one; a stored session always carries the Authorization header.
C13_FailFastWithoutToken ==
    /\ ~pat_token =>
         /\ a_session = 0 /\ a_returned = {}
         /\ a_last.op \in C11_SessionOps =>
              (a_last.raised /\ a_last.out = "ValueError" /\ a_last.attempts = 0)
    /\ a_session # 0 => a_objects[a_session].authorization = "Basic"

\* a second get_session without a token failed like the first
C13_Witness ==
    /\ ~pat_token /\ Len(a_objects) = 2 /\ a_last.op = "get_session"
    /\ a_last.raised /\ a_session = 0

\* C14: a request of any of GET, POST, PUT, PATCH, DELETE whose first k
\* answers are 429, 500, 502, 503 or 504 is re-sent: it makes min(k + 1, 4)
\* attempts, succeeds when k <= 3 and fails only when k >= 4.
C14_RetryEveryVerb ==
    (a_last.op = "request" /\ a_last.out # "ValueError") =>
        /\ a_last.method \in {"GET", "POST", "PUT", "PATCH", "DELETE"}
        /\ a_last.transient.code \in {429, 500, 502, 503, 504}
        /\ a_last.attempts = (IF a_last.k + 1 < 4 THEN a_last.k + 1 ELSE 4)
        /\ a_last.raised <=> a_last.k >= 4

\* C16: get_pull_request returns None without raising when the request ends
\* in a 404 answer, returns the pull request on a 200, and raises for every
\* other HTTP error status, for exhausted retries and for connection errors.
C16_NotFoundIsNone ==
    (a_last.op = "get_pull_request" /\ a_last.out # "ValueError") =>
        IF a_last.k <= 3
        THEN /\ a_last.final.code = 404 => (~a_last.raised /\ a_last.ret = "None")
             /\ a_last.final.code = 200 => (~a_last.raised /\ a_last.ret = "PullRequest")
             /\ a_last.final.code = 401 => a_last.raised
        ELSE a_last.raised

\* a 404 after two transient answers gave None; the witness of the other
\* branch is a 401 that was raised
C16_Witness ==
    /\ a_last.op = "get_pull_request" /\ a_last.k = 2 /\ a_last.final.code = 404
    /\ a_last.attempts = 3 /\ a_last.ret = "None" /\ ~a_last.raised

\* the sessions _create_session completed: constructed, header set
C23_Constructed == {id \in 1..Len(a_objects) : a_objects[id].authorization # ""}

\* C23 as stated: over the whole lifetime of one AzureDevOpsAuth at most one
\* session is constructed, whatever get_session, test_connection and close
\* calls are made.
C23_AtMostOnceEver == Cardinality(C23_Constructed) <= 1

\* C23: a session is constructed only while none is stored: every session
\* constructed before another one had been closed by then, so at most one is
\* constructed between two close() calls, and at most one ever when close()
\* is never called.
C23_AtMostOncePerClose ==
    /\ \A i, j \in C23_Constructed : i < j => a_objects[i].closes >= 1
    /\ (\A id \in C23_Constructed : a_objects[id].closes = 0) =>
           Cardinality(C23_Constructed) <= 1

\* test_connection constructed the second session after close() had closed
\* the first
C23_Witness ==
    /\ Cardinality(C23_Constructed) = 2 /\ a_objects[1].closes = 1
    /\ a_last.op = "test_connection" /\ a_session = 2 /\ a_objects[2].closes = 0

\* C24: test_connection never raises and returns a boolean: True when the
\* projects request succeeded, False for every failure (connection errors,
\* HTTP error statuses, exhausted retries, a missing credential).
C24_NeverRaises ==
    a_last.op = "test_connection" =>
        /\ ~a_last.raised
        /\ a_last.ret \in {"True", "False"}
        /\ a_last.ret = "True" <=> a_last.out = "response"

(***************************************************************************)
(* Claims about concurrent callers of get_session (RaceSpec).              *)
(***************************************************************************)
\* the threads whose get_session call has returned
C22_Returned == {t \in Threads : t_pc[t] = "done"}

\* C22: when several threads call get_session at once on an AzureDevOpsAuth
\* that has no session yet, exactly one session is constructed and every
\* caller receives that same session.
C22_OneSessionForAll ==
    pat_token =>
        /\ Len(a_objects) <= 1
        /\ \A t, u \in C22_Returned : t_got[t] = t_got[u]
        /\ C22_Returned # {} => Len(a_objects) = 1

(***************************************************************************)
(* Claims about optimize_prompt (PromptSpec).                              *)
(***************************************************************************)
\* the limit of the call: max_length, by default max_tokens // 2
C25_Limit == IF max_length = <<>> THEN max_tokens \div 2 ELSE max_length[1]

\* C25: optimize_prompt returns the prompt unchanged when its estimated
\* token count is at most the limit, and whenever the estimate exceeds the
\* limit it returns the first limit * 4 characters followed by the
\* truncation marker, whatever estimator the backend has.
C25_TruncatesOverLimit ==
    q_pc \in {"optimized", "again"} =>
        IF count_tokens(estimator, prompt) <= C25_Limit
        THEN optimized = prompt
        ELSE optimized = TCat(TTake(prompt, C25_Limit * CharsPerToken), TruncationMarker)

\* C30: with the characters-per-token estimator the result of
\* optimize_prompt fits the limit, and optimizing the result again gives the
\* result back.
C30_FitsAndIdempotent ==
    estimator = "chars" =>
        /\ q_pc \in {"optimized", "again"} =>
               TLen(optimized) \div CharsPerToken <= C25_Limit
        /\ q_pc = "again" => reoptimized = optimized

(***************************************************************************)
(* Claims about the hosted chat provider (ProviderSpec).                   *)
(***************************************************************************)
\* the model name matches the reasoning allowlist: it begins with "gpt-5"
\* or with "o1"
C27_Reasoning == startswith(model, gpt_5) \/ startswith(model, o1)

\* C27: the models that get the extended timeout are the models whose
\* requests omit temperature and max_tokens: for a model matching the
\* reasoning allowlist the client timeout is max(configured, 600) and the
\* request carries neither parameter, for every other model the timeout is
\* the configured one and both parameters are sent.
C27_ExtendedIffOmitted ==
    /\ m_pc \in {"ready", "requested"} =>
         client_timeout = IF C27_Reasoning /\ timeout < ExtendedTimeout
                          THEN ExtendedTimeout ELSE timeout
    /\ m_pc = "requested" =>
         IF C27_Reasoning
         THEN DOMAIN params \cap {"temperature", "max_tokens"} = {}
         ELSE {"temperature", "max_tokens"} \subseteq DOMAIN params

\* a request for o1-mini under the default timeout: the client was built
\* with the extended timeout and the request has the model and the messages
\* only
C27_Witness ==
    /\ m_pc = "requested" /\ model = o1_mini /\ timeout = DefaultTimeout
    /\ client_timeout = ExtendedTimeout
    /\ DOMAIN params = {"model", "messages"}

(***************************************************************************)
(* Claims about the provider registry (FactorySpec).                       *)
(***************************************************************************)
\* the register calls made under a name, in call order
C15_Registered(name) == SelectSeq(f_log, LAMBDA r : Lower(r.name) = name)

\* the distinct lower-cased names of the register calls
C15_Names == {Lower(f_log[i].name) : i \in 1..Len(f_log)}

\* C15: create with a name no register call gave raises ValueError, its
\* message lists exactly the registered names, each once, and no provider is
\* constructed; with a registered name it constructs the class of the last
\* register call made under that lower-cased name.
C15_CreateFromRegistry ==
    f_last.op = "create" =>
        IF f_last.name \notin C15_Names
        THEN /\ f_last.raised /\ f_last.constructed = ""
             /\ Range(f_last.available) = C15_Names
             /\ Len(f_last.available) = Cardinality(C15_Names)
        ELSE /\ ~f_last.raised
             /\ LET calls == C15_Registered(f_last.name)
                IN  f_last.constructed = calls[Len(calls)].cls

\* "openai" was registered twice, the second time as "OpenAI" with another
\* class, and create constructed the second class
C15_Witness ==
    /\ f_last.op = "create" /\ f_last.name = "openai" /\ ~f_last.raised
    /\ Len(C15_Registered("openai")) >= 2
    /\ C15_Registered("openai")[1].cls # f_last.constructed
    /\ \E i \in 1..Len(f_log) : f_log[i].name = "OpenAI"

(***************************************************************************)
(* Claims about the steps of main (Spec).                                  *)
(***************************************************************************)
\* C17: when the provider call made for the summary raises, no summary
\* comment is posted to the host, summary_posted stays false, and the run
\* completes.
C17_NoSummaryOnFailure ==
    summary_gen.k = "raise" =>
        /\ pc = "done"
        /\ summary_posts = <<>>
        /\ ~results.summary_posted

\* C18: a run ends with exit code 1 only on a configuration error or a failed
\* connectivity check; no other failure ends it that way.
C18_AbnormalExitCauses ==
    pc = "exit1" => cause \in {"configuration", "connectivity"}

\* C19: with --dry-run post_results hands no batch to post_review_comments,
\* posts no summary comment, makes no provider call for a summary and returns
\* comments_posted = 0 and summary_posted = false, whatever the comments and
\* whatever POST_COMMENTS and POST_SUMMARY say.
C19_DryRunPostsNothing ==
    dry_run =>
        /\ handed = <<>> /\ summary_posts = <<>> /\ summary_gen = NoCall
        /\ \A i \in 1..Len(provider_calls) : provider_calls[i].purpose # "summary"
        /\ results = NewRunResults

\* a dry run over two comments with POST_COMMENTS and POST_SUMMARY both true
C19_Witness ==
    /\ pc = "done" /\ dry_run /\ post_comments /\ post_summary
    /\ Len(comments) >= 2

\* the generate_completion calls made for files
C20_Calls == SelectSeq(provider_calls, LAMBDA c : c.purpose = "review")

\* the calls due for the first n files: one per file with non-empty content,
\* in list order
C20_Due(n) ==
    LET withContent == SelectSeq([i \in 1..n |-> i], LAMBDA i : file_contents[i] = "text")
    IN  [j \in 1..Len(withContent) |->
           [purpose |-> "review", path |-> file_diffs[withContent[j]].path]]

\* C20: review_pull_request calls generate_completion exactly once for each
\* file with non-empty content, in list order, never for a file whose content
\* is missing or empty, and a call is issued only when every earlier call has
\* ended and its reply has been parsed, validated and added to the result.
C20_OneCallPerFileInOrder ==
    /\ pc \in {"main", "configured", "clients", "connected", "pr", "start", "exit0",
               "exit1"} => provider_calls = <<>>
    /\ pc = "review" => C20_Calls = C20_Due(idx - 1)
    /\ pc = "calling" =>
         /\ C20_Calls = C20_Due(idx) /\ file_contents[idx] = "text"
         /\ Len(outcomes) = idx - 1
         /\ all_comments = Concat([i \in 1..(idx - 1) |-> C1_Contribution(i)])
    /\ pc \in {"reviewed", "summary", "done"} => C20_Calls = C20_Due(Len(file_diffs))

\* the first file has empty content and got no call; the call for the second
\* file is the only one issued
C20_Witness ==
    /\ pc = "calling" /\ idx = 2 /\ file_contents = <<"empty", "text">>
    /\ provider_calls = <<[purpose |-> "review", path |-> file_diffs[2].path]>>

\* the stage of the run the position pc belongs to: start-up and fetch,
\* select, review loop, aggregate and cap (left by posting the comments),
\* summary, end
C21_Stage ==
    CASE pc \in {"main", "configured", "clients", "connected"} -> 1
      [] pc = "pr" -> 2
      [] pc = "start" -> 3
      [] pc \in {"review", "calling", "crashed"} -> 4
      [] pc = "reviewed" -> 5
      [] pc = "summary" -> 6
      [] OTHER -> 7

\* the provider call for the summary has been issued
C21_Summarized ==
    \E i \in 1..Len(provider_calls) : provider_calls[i].purpose = "summary"

====
